---- MODULE Spec2Model ----
(***************************************************************************)
(* Model of the AI-call layer of TalentScout (src/src/lib/gemini.ts): the  *)
(* process-wide throttle guard and the retry/backoff loop that wraps       *)
(* model.generateContent in analyzeCandidateProfile, analyzeJobFit and     *)
(* generateOutreachMessage.                                                *)
(*                                                                         *)
(* JavaScript runs each invocation without interruption between two        *)
(* suspension points (await), so one action is one such run:               *)
(*   Invoke       call of the exported function up to `await getGenAI()`   *)
(*   StartOp      resumption: throttleGuard(), first generateContent call  *)
(*   OnSettled    generateContent settles: parse / classify / finally      *)
(*   TimerFires   the backoff setTimeout fires, next generateContent call  *)
(*   Tick         the wall clock (Date.now) advances                       *)
(*                                                                         *)
(* Further parts, each with a specification of its own:                    *)
(*   SpecUI    the sidepanel handlers that call the three operations       *)
(*             (entrypoints/sidepanel/App.tsx, src/components/Icebreaker)  *)
(*   SpecDom   the DOM mapper, mapDOM and extractByIds                     *)
(*             (entrypoints/content/dom_observer.ts)                       *)
(*   SpecNorm  the step from the parsed response to the returned record    *)
(*   SpecOutreach  generateOutreachMessage on texts with whitespace        *)
(*   SpecKey   setApiKey and getGenAI over chrome.storage.sync             *)
(*   SpecLive  the retry loop when every awaited promise settles           *)
(*   SpecStore overlapping saveCandidate calls                             *)
(*             (src/hooks/useCandidateStore.ts)                            *)
(***************************************************************************)
EXTENDS Integers, Sequences, FiniteSets, TLC

\* ------------------------------------------------------------------------
\* Bounds of the model
\* ------------------------------------------------------------------------
\* Date.now() when the module is loaded (any reading >= MIN_CALL_GAP_MS).
T0 == 2000
\* Granularity of the clock readings.
TickMs == 500
\* Tick stops, and no new invocation is made, once the clock is this far past
\* T0 (a backoff timer still moves the clock past it).
TickSpan == 2500

\* Concurrent invocations (callers of the three exported operations).
Procs == {"p1", "p2"}

\* ------------------------------------------------------------------------
\* Program constants
\* ------------------------------------------------------------------------
MAX_RETRIES == 3
MIN_CALL_GAP_MS == 2000
BACKOFF_BASE_MS == 15000
MIN_OUTREACH_LEN == 20

Ops == {"analyzeCandidateProfile", "analyzeJobFit", "generateOutreachMessage"}
JsonOps == {"analyzeCandidateProfile", "analyzeJobFit"}

\* ------------------------------------------------------------------------
\* Error values.  A message is modelled by the template it comes from (id),
\* the classification substrings it contains (marks), the number and the
\* underlying message it embeds.
\* ------------------------------------------------------------------------
Markers == {"429", "quota", "Quota", "limit: 0", "PerDay"}

MkErr(name, id, marks, n, lastId, lastMarks) ==
    [name |-> name, id |-> id, marks |-> marks, n |-> n,
     lastId |-> lastId, lastMarks |-> lastMarks]

NoError == MkErr("none", "", {}, 0, "", {})

\* An Error rejected by the SDK whose message contains exactly `marks`.
\* (The SDK and the try block throw Error instances only, so the catch
\* block's `new Error(String(err))` wrapping of other values is not taken.)
UpstreamErr(marks) == MkErr("Error", "upstream", marks, 0, "", {})

\* ------------------------------------------------------------------------
\* Response texts returned by result.response.text()
\* ------------------------------------------------------------------------
\* `len` characters, of which `pad` are white space at its two ends.
MkText(tid, json, marks, len) ==
    [tid |-> tid, json |-> json, marks |-> marks, len |-> len, pad |-> 0]
NoText == MkText("none", "none", {}, 0)

\* The text t with `pad` characters of white space around it.
Padded(t, pad) == [t EXCEPT !.len = @ + pad, !.pad = pad]

\* Variant: the text is returned as it is.
trim_identity(t) == t

\* t.trim()
trim(t) == [t EXCEPT !.len = @ - t.pad, !.pad = 0]

\* Texts the upstream model may answer with (inputs of the model):
\* well-formed JSON objects of two lengths, a well-formed but short text,
\* and unparseable texts with and without rate-limit words in them.
Texts == {
    MkText("profileA", "object", {}, 40),
    MkText("profileB", "object", {"quota"}, 45),
    MkText("braces", "object", {}, 2),
    MkText("prose", "invalid", {}, 30),
    MkText("quotaProse", "invalid", {"quota"}, 30),
    MkText("perDayProse", "invalid", {"429", "limit: 0", "PerDay"}, 30) }

\* Messages of the errors generateContent may reject with (inputs).
ErrMarks == {
    {"429"},
    {"Quota", "PerDay"},
    {"quota", "limit: 0"},
    {"429", "quota", "Quota", "limit: 0", "PerDay"},
    {"limit: 0", "PerDay"},
    {} }

\* What one generateContent call settles with.
Resolved(t) == [ok |-> TRUE, err |-> NoError, text |-> t]
Rejected(e) == [ok |-> FALSE, err |-> e, text |-> NoText]
Upstream == {Resolved(t) : t \in Texts} \cup {Rejected(UpstreamErr(m)) : m \in ErrMarks}

\* ------------------------------------------------------------------------
\* Helpers of gemini.ts
\* ------------------------------------------------------------------------
\* 2^attempt
RECURSIVE Pow2(_)
Pow2(n) == IF n = 0 THEN 1 ELSE 2 * Pow2(n - 1)

\* Math.ceil(a / b) for b > 0 (a may be negative)
CeilDiv(a, b) == -((-a) \div b)

\* Variant: linear instead of exponential delay.
backoffDelay_linear(attempt) == attempt * BACKOFF_BASE_MS

backoffDelay(attempt) == Pow2(attempt) * BACKOFF_BASE_MS

\* Variant: only the HTTP status is recognised.
isQuotaError_429(msg) == "429" \in msg.marks

isQuotaError(msg) == "429" \in msg.marks \/ "quota" \in msg.marks \/ "Quota" \in msg.marks

\* Variant: the second substring is misspelt and never found.
isDailyQuotaExhausted_typo(msg) == "limit: 0" \in msg.marks /\ "perDay" \in msg.marks

isDailyQuotaExhausted(msg) == "limit: 0" \in msg.marks /\ "PerDay" \in msg.marks

\* JSON.parse(cleaned): the parsed value, or a SyntaxError.  The engine's
\* SyntaxError message quotes the offending source text, so it contains the
\* words of that text.
safeParseJSON(text) ==
    IF text.json = "invalid"
    THEN [threw |-> TRUE, err |-> MkErr("SyntaxError", "JSON.parse", text.marks, 0, "", {}), value |-> NoText]
    ELSE [threw |-> FALSE, err |-> NoError, value |-> text]

\* ------------------------------------------------------------------------
\* Throttle guard
\* ------------------------------------------------------------------------
BusyError == MkErr("Error", "Ya hay una solicitud a Gemini en curso", {}, 0, "", {})
WaitError(n) == MkErr("Error", "Demasiadas solicitudes. Espera Ns", {}, n, "", {})

\* Variant: the in-flight flag is not consulted.
throttleGuard_noFlag(inFlight, last, t) ==
    IF t - last < MIN_CALL_GAP_MS
    THEN [threw |-> TRUE,
          err |-> WaitError(CeilDiv(MIN_CALL_GAP_MS - (t - last), 1000)),
          inFlight |-> inFlight, last |-> last]
    ELSE [threw |-> FALSE, err |-> NoError, inFlight |-> TRUE, last |-> t]

\* Variant: the gap test is `elapsed <= MIN_CALL_GAP_MS`.
throttleGuard_le(inFlight, last, t) ==
    IF inFlight
    THEN [threw |-> TRUE, err |-> BusyError, inFlight |-> inFlight, last |-> last]
    ELSE IF t - last <= MIN_CALL_GAP_MS
         THEN [threw |-> TRUE,
               err |-> WaitError(CeilDiv(MIN_CALL_GAP_MS - (t - last), 1000)),
               inFlight |-> inFlight, last |-> last]
         ELSE [threw |-> FALSE, err |-> NoError, inFlight |-> TRUE, last |-> t]

\* Variant: a rejected call records its time too.
throttleGuard_stampOnReject(inFlight, last, t) ==
    IF inFlight
    THEN [threw |-> TRUE, err |-> BusyError, inFlight |-> inFlight, last |-> t]
    ELSE IF t - last < MIN_CALL_GAP_MS
         THEN [threw |-> TRUE,
               err |-> WaitError(CeilDiv(MIN_CALL_GAP_MS - (t - last), 1000)),
               inFlight |-> inFlight, last |-> t]
         ELSE [threw |-> FALSE, err |-> NoError, inFlight |-> TRUE, last |-> t]

\* throttleGuard() evaluated with the flag, the timestamp and Date.now():
\* whether it throws, and the values it leaves in the two globals.
throttleGuard(inFlight, last, t) ==
    IF inFlight
    THEN [threw |-> TRUE, err |-> BusyError, inFlight |-> inFlight, last |-> last]
    ELSE IF t - last < MIN_CALL_GAP_MS
         THEN [threw |-> TRUE,
               err |-> WaitError(CeilDiv(MIN_CALL_GAP_MS - (t - last), 1000)),
               inFlight |-> inFlight, last |-> last]
         ELSE [threw |-> FALSE, err |-> NoError, inFlight |-> TRUE, last |-> t]

\* Variant: the flag is left set.
releaseThrottle_keep == TRUE

\* releaseThrottle(): the value it stores in _callInFlight.
releaseThrottle == FALSE

\* ------------------------------------------------------------------------
\* The retry loop, one iteration
\* ------------------------------------------------------------------------
ApiKeyError == MkErr("Error", "API Key no configurada", {}, 0, "", {})
TooShortError == MkErr("Error", "Gemini devolvio un mensaje vacio o demasiado corto", {}, 0, "", {})

DailyQuotaError(o) ==
    IF o = "analyzeCandidateProfile"
    THEN MkErr("Error", "Cuota diaria agotada para el free tier de Gemini", {}, 0, "", {})
    ELSE MkErr("Error", "Cuota diaria agotada. Espera ~24h o usa otra API Key", {}, 0, "", {})

InvalidJsonError(o) ==
    IF o = "analyzeCandidateProfile"
    THEN MkErr("Error", "Gemini devolvio una respuesta que no es JSON valido", {}, 0, "", {})
    ELSE MkErr("Error", "Gemini devolvio JSON invalido en analisis de fit", {}, 0, "", {})

\* Variant: the loop index of the last attempt is reported as the count.
ExhaustedError_offByOne(o, last) ==
    MkErr("Error",
          CASE o = "analyzeCandidateProfile" -> "Gemini no respondio despues de N intentos. Ultimo error"
            [] o = "analyzeJobFit" -> "Fit analysis failed after N attempts. Last"
            [] OTHER -> "Outreach generation failed after N attempts. Last",
          {}, MAX_RETRIES - 1, last.id, last.marks)

\* The error thrown after the loop: attempt count and lastError's message.
ExhaustedError(o, last) ==
    MkErr("Error",
          CASE o = "analyzeCandidateProfile" -> "Gemini no respondio despues de N intentos. Ultimo error"
            [] o = "analyzeJobFit" -> "Fit analysis failed after N attempts. Last"
            [] OTHER -> "Outreach generation failed after N attempts. Last",
          {}, MAX_RETRIES, last.id, last.marks)

\* Variant: one iteration more.
loopCondition_le(attempt) == attempt <= MAX_RETRIES

\* `attempt < MAX_RETRIES`, the condition of the for loop.
loopCondition(attempt) == attempt < MAX_RETRIES

\* The try block from the point generateContent settles with u: the value
\* returned, or the error thrown into the catch block.
TryBody(o, u) ==
    IF ~u.ok THEN [threw |-> TRUE, err |-> u.err, value |-> NoText]
    ELSE IF o \in JsonOps THEN safeParseJSON(u.text)
    ELSE LET text == trim(u.text) IN
         IF text.len < MIN_OUTREACH_LEN
         THEN [threw |-> TRUE, err |-> TooShortError, value |-> NoText]
         ELSE [threw |-> FALSE, err |-> NoError, value |-> text]

\* Variant: every error that is not a rate limit is reported as invalid JSON.
CatchBlock_allInvalid(o, err) ==
    IF isQuotaError(err)
    THEN IF isDailyQuotaExhausted(err)
         THEN [act |-> "throw", err |-> DailyQuotaError(o)]
         ELSE [act |-> "continue", err |-> NoError]
    ELSE [act |-> "throw", err |-> InvalidJsonError(o)]

\* Variant: the outreach call site does not retry a transient rate limit.
CatchBlock_outreachNoRetry(o, err) ==
    IF isQuotaError(err) /\ o \in JsonOps
    THEN IF isDailyQuotaExhausted(err)
         THEN [act |-> "throw", err |-> DailyQuotaError(o)]
         ELSE [act |-> "continue", err |-> NoError]
    ELSE IF isQuotaError(err) /\ isDailyQuotaExhausted(err)
         THEN [act |-> "throw", err |-> DailyQuotaError(o)]
    ELSE IF o \in JsonOps /\ err.name = "SyntaxError"
         THEN [act |-> "throw", err |-> InvalidJsonError(o)]
         ELSE [act |-> "throw", err |-> err]

\* The catch block for the caught error: "continue" the loop, or "throw".
CatchBlock(o, err) ==
    IF isQuotaError(err)
    THEN IF isDailyQuotaExhausted(err)
         THEN [act |-> "throw", err |-> DailyQuotaError(o)]
         ELSE [act |-> "continue", err |-> NoError]
    ELSE IF o \in JsonOps /\ err.name = "SyntaxError"
         THEN [act |-> "throw", err |-> InvalidJsonError(o)]
         ELSE [act |-> "throw", err |-> err]

\* ========================================================================
\* The DOM mapper (entrypoints/content/dom_observer.ts): data and functions
\* ========================================================================
\* Elements under the scan root, numbered in document order.
MaxNodes == 3
\* mapDOM calls and page changes in one behaviour.
MaxScans == 2
MaxEdits == 1

MAX_TEXT_LENGTH == 200
\* `text.length < 2`: the shortest text that is mapped.
MIN_TEXT_LENGTH == 2
\* The length of ' → ' between a link's text and its destination.
ARROW_LENGTH == 3

Nodes == 1..MaxNodes

\* The parent of element n; 0 is the scan root.  Every even element is the
\* child of the element before it, so document order is the numbering.
Parent(n) == IF n % 2 = 0 THEN n - 1 ELSE 0

RECURSIVE SelfAndAncestors(_)
SelfAndAncestors(n) == IF n = 0 THEN {} ELSE {n} \cup SelfAndAncestors(Parent(n))

\* FORBIDDEN_ZONES, as two rules: r1 and r2.
FORBIDDEN_ZONES == {"r1", "r2"}

\* A string is modelled by what it is made of and how many of its characters
\* are kept; `cut` says the ellipsis character follows them.
Str(of, n) == [of |-> of, n |-> n, cut |-> FALSE]
Length(s) == s.n + (IF s.cut THEN 1 ELSE 0)

\* An element: its tag, the length of getDirectText(el), of its href, of
\* `aria-label ?? title`, the result of isVisible(el), and the forbidden
\* rule it matches itself.
El(tag, text, href, label, visible, zone) ==
    [tag |-> tag, text |-> text, href |-> href, label |-> label,
     visible |-> visible, zone |-> zone]

ContainerEls ==
    {El("DIV", 0, 0, 0, TRUE, "none"),
     El("SECTION", 5, 0, 0, TRUE, "none"),
     El("DIV", 0, 0, 0, TRUE, "r2"),
     El("LI", 5, 0, 0, TRUE, "r1")}

TextEls ==
    {El("SPAN", 1, 0, 0, TRUE, "none"),
     El("P", 2, 0, 0, TRUE, "none"),
     El("P", 200, 0, 0, TRUE, "none"),
     El("P", 201, 0, 0, TRUE, "none"),
     El("P", 5, 0, 0, FALSE, "none")}

InteractiveEls ==
    {El("A", 199, 5, 0, TRUE, "none"),
     El("A", 0, 5, 0, TRUE, "none"),
     El("BUTTON", 0, 0, 250, TRUE, "none"),
     El("BUTTON", 0, 0, 0, TRUE, "none")}

\* The elements the page can put at position n.
Catalogue(n) ==
    IF n = 1 THEN ContainerEls
    ELSE IF n % 2 = 0 THEN TextEls ELSE InteractiveEls

NoEl == El("DIV", 0, 0, 0, FALSE, "none")

\* Element n is connected to the document: it and its ancestors are attached.
InDoc(pg, n) == \A a \in SelfAndAncestors(n) : pg[a].att

\* Variant: only the element itself is matched against the rules.
isInsideForbiddenZone_selfOnly(pg, above, unsupported, n) ==
    IF unsupported # {}
    THEN FALSE
    ELSE pg[n].el.zone \in FORBIDDEN_ZONES

\* el.closest(FORBIDDEN_SELECTOR) !== null, FORBIDDEN_SELECTOR being the
\* rules joined into one selector list: closest() throws when the engine
\* rejects any rule of the list, and the catch returns false.  `above` is the
\* rule matched by an ancestor of the scan root.
isInsideForbiddenZone(pg, above, unsupported, n) ==
    IF unsupported # {}
    THEN FALSE
    ELSE \/ \E a \in SelfAndAncestors(n) : pg[a].el.zone \in FORBIDDEN_ZONES
         \/ above \in FORBIDDEN_ZONES

\* The text of a mapped line before truncation: the direct text, with the
\* destination of a link and the label fallback of a button.
TextOf(e) ==
    IF e.tag = "A" /\ e.href > 0
    THEN IF e.text > 0
         THEN Str("text -> href", e.text + ARROW_LENGTH + e.href)
         ELSE Str("href", e.href)
    ELSE IF e.tag = "BUTTON" /\ e.text = 0 THEN Str("label", e.label)
    ELSE Str("text", e.text)

\* Variant: a text of exactly MAX_TEXT_LENGTH characters is cut too.
Truncate_ge(s) ==
    IF s.n >= MAX_TEXT_LENGTH
    THEN [s EXCEPT !.n = MAX_TEXT_LENGTH, !.cut = TRUE]
    ELSE s

\* text.length > MAX_TEXT_LENGTH ? text.substring(0, MAX_TEXT_LENGTH) + '…' : text
Truncate(s) ==
    IF s.n > MAX_TEXT_LENGTH
    THEN [s EXCEPT !.n = MAX_TEXT_LENGTH, !.cut = TRUE]
    ELSE s

\* ========================================================================
\* Response normalisation (gemini.ts): JSON values and the JavaScript
\* conversions applied to them
\* ========================================================================
\* A scalar JSON value, or `undefined` for an absent property: its type, what
\* String() makes of it, and what Number() makes of it (n, or NaN).  Objects
\* are plain ones, without a toString property of their own.
Sc(t, str, n, nan) == [t |-> t, s |-> str, n |-> n, nan |-> nan]

Undefined == Sc("undefined", "undefined", 0, TRUE)
Null == Sc("null", "null", 0, FALSE)
EmptyString == Sc("string", "", 0, FALSE)
StringX == Sc("string", "x", 0, TRUE)
Number7 == Sc("number", "7", 7, FALSE)
PlainObject == Sc("object", "[object Object]", 0, TRUE)

\* A value that is tested with Array.isArray: an array of scalars, or
\* another value.
Arr(items) == [arr |-> TRUE, items |-> items, other |-> Undefined]
NotArr(v) == [arr |-> FALSE, items |-> <<>>, other |-> v]

\* An element of an experience / education array: an object with three
\* properties, null, or a primitive.
Obj3(a, b, c) == [k |-> "object", f |-> <<a, b, c>>]
NullEl == [k |-> "null", f |-> <<Undefined, Undefined, Undefined>>]
PrimitiveEl == [k |-> "primitive", f |-> <<Undefined, Undefined, Undefined>>]

\* v is truthy.
Truthy(v) ==
    CASE v.t \in {"undefined", "null"} -> FALSE
      [] v.t = "string" -> v.s # ""
      [] v.t = "number" -> ~v.nan /\ v.n # 0
      [] v.t = "boolean" -> v.s = "true"
      [] OTHER -> TRUE

\* A string of the returned record.
OutStr(str) == [t |-> "string", s |-> str]

\* String(v || '')
StringOr(v) == IF Truthy(v) THEN OutStr(v.s) ELSE OutStr("")

\* String(v ?? '')
StringNullish(v) == IF v.t \in {"undefined", "null"} THEN OutStr("") ELSE OutStr(v.s)

\* Variant: the value is passed on when it is not an array.
StringList_passThrough(v) ==
    IF v.arr
    THEN [t |-> "array", items |-> [i \in DOMAIN v.items |-> OutStr(v.items[i].s)]]
    ELSE [t |-> v.other.t, items |-> <<>>]

\* Array.isArray(v) ? v.map(String) : []
StringList(v) ==
    IF v.arr
    THEN [t |-> "array", items |-> [i \in DOMAIN v.items |-> OutStr(v.items[i].s)]]
    ELSE [t |-> "array", items |-> <<>>]

\* Array.isArray(v) ? v.map((x) => ({a: String(x.a || ''), ...})) : [];
\* reading a property of a null element throws a TypeError.
RecordList(v) ==
    IF v.arr
    THEN [threw |-> \E i \in DOMAIN v.items : v.items[i].k = "null",
          t |-> "array",
          items |-> [i \in DOMAIN v.items |->
                       <<StringOr(v.items[i].f[1]), StringOr(v.items[i].f[2]),
                         StringOr(v.items[i].f[3])>>]]
    ELSE [threw |-> FALSE, t |-> "array", items |-> <<>>]

\* Page addresses, and url.includes(part).
Urls == {"https://www.linkedin.com/in/x", "https://es.indeed.com/r/y", "https://example.org/cv"}
Includes(url, part) ==
    \/ part = "linkedin.com" /\ url = "https://www.linkedin.com/in/x"
    \/ part = "indeed.com" /\ url = "https://es.indeed.com/r/y"

\* inferSource(parsedSource, url)
inferSource(parsedSource, url) ==
    IF parsedSource.t = "string" /\ parsedSource.s \in {"linkedin", "indeed"}
    THEN parsedSource.s
    ELSE IF Includes(url, "linkedin.com") THEN "linkedin"
    ELSE IF Includes(url, "indeed.com") THEN "indeed"
    ELSE "other"

\* Math.max(0, Math.min(100, Number(v) || 0))
ClampScore(v) ==
    LET x == IF v.nan THEN 0 ELSE v.n IN
    IF x > 100 THEN 100 ELSE IF x < 0 THEN 0 ELSE x

TypeError == MkErr("TypeError", "Cannot read properties of null", {}, 0, "", {})

\* `parsed`: an object with the properties the code reads (Undefined: the
\* property is absent), null, or a primitive / an array (every property
\* read gives undefined).
ProfileDoc(k, str, purl, src, list, exps, edus) ==
    [k |-> k, fullName |-> str, currentRole |-> str, location |-> str,
     profileUrl |-> purl, source |-> src, summary |-> str, email |-> str,
     phone |-> str, skills |-> list, experience |-> exps,
     certifications |-> list, education |-> edus,
     score |-> Undefined, verdict |-> Undefined, matchingSkills |-> NotArr(Undefined),
     gaps |-> NotArr(Undefined), strengths |-> NotArr(Undefined)]

FitDoc(k, score, verdict, list, gaps) ==
    [k |-> k, fullName |-> Undefined, currentRole |-> Undefined, location |-> Undefined,
     profileUrl |-> Undefined, source |-> Undefined, summary |-> Undefined,
     email |-> Undefined, phone |-> Undefined, skills |-> NotArr(Undefined),
     experience |-> NotArr(Undefined), certifications |-> NotArr(Undefined),
     education |-> NotArr(Undefined),
     score |-> score, verdict |-> verdict, matchingSkills |-> list,
     gaps |-> gaps, strengths |-> list]

EmptyDoc(k) ==
    ProfileDoc(k, Undefined, Undefined, Undefined, NotArr(Undefined),
               NotArr(Undefined), NotArr(Undefined))

StringValues == {Undefined, Null, EmptyString, StringX, Number7, PlainObject}
SourceValues ==
    {Undefined, Number7, Sc("string", "linkedin", 0, TRUE),
     Sc("string", "other", 0, TRUE), Sc("string", "xing", 0, TRUE)}
ListValues ==
    {NotArr(Undefined), NotArr(StringX), Arr(<<>>),
     Arr(<<StringX, Null, Number7, PlainObject>>)}
ExperienceValues ==
    {NotArr(Undefined), NotArr(PlainObject), Arr(<<>>),
     Arr(<<Obj3(StringX, StringX, StringX)>>),
     Arr(<<Obj3(StringX, Undefined, Null), Obj3(Number7, EmptyString, PlainObject),
           PrimitiveEl>>),
     Arr(<<Obj3(StringX, StringX, StringX), NullEl>>)}
EducationValues ==
    {NotArr(Undefined), Arr(<<Obj3(StringX, StringX, Number7)>>), Arr(<<NullEl>>)}
ScoreValues ==
    {Undefined, Null, StringX, Sc("string", "85", 85, FALSE), PlainObject,
     Sc("number", "0", 0, FALSE), Sc("number", "55", 55, FALSE),
     Sc("number", "100", 100, FALSE), Sc("number", "150", 150, FALSE),
     Sc("number", "-10", 0 - 10, FALSE), Sc("boolean", "true", 1, FALSE)}

\* What JSON.parse can return besides an object.
NonObjects == {EmptyDoc("null"), EmptyDoc("primitive")}

NoProfile ==
    [fullName |-> OutStr(""), currentRole |-> OutStr(""), location |-> OutStr(""),
     profileUrl |-> OutStr(""), source |-> "other", summary |-> OutStr(""),
     email |-> OutStr(""), phone |-> OutStr(""),
     skills |-> StringList(NotArr(Undefined)),
     experience |-> [t |-> "array", items |-> <<>>],
     certifications |-> StringList(NotArr(Undefined)),
     education |-> [t |-> "array", items |-> <<>>],
     status |-> "new"]

NoFit ==
    [score |-> 0, verdict |-> OutStr(""), matchingSkills |-> StringList(NotArr(Undefined)),
     gaps |-> StringList(NotArr(Undefined)), strengths |-> StringList(NotArr(Undefined))]

NoInput == [op |-> "none", doc |-> EmptyDoc("null"), url |-> ""]
NoOutput == [kind |-> "none", err |-> NoError, profile |-> NoProfile, fit |-> NoFit]

\* The object literal analyzeCandidateProfile builds from `parsed`.
BuildProfile(doc, url) ==
    LET exps == RecordList(doc.experience)
        edus == RecordList(doc.education)
    IN
    IF doc.k = "null" \/ exps.threw \/ edus.threw
    THEN [kind |-> "throw", err |-> TypeError, profile |-> NoProfile, fit |-> NoFit]
    ELSE [kind |-> "return", err |-> NoError, fit |-> NoFit,
          profile |->
            [fullName |-> StringOr(doc.fullName),
             currentRole |-> StringOr(doc.currentRole),
             location |-> StringOr(doc.location),
             profileUrl |-> IF Truthy(doc.profileUrl) THEN OutStr(doc.profileUrl.s)
                            ELSE OutStr(url),
             source |-> inferSource(doc.source, url),
             summary |-> StringOr(doc.summary),
             email |-> StringOr(doc.email),
             phone |-> StringOr(doc.phone),
             skills |-> StringList(doc.skills),
             experience |-> [t |-> exps.t, items |-> exps.items],
             certifications |-> StringList(doc.certifications),
             education |-> [t |-> edus.t, items |-> edus.items],
             status |-> "new"]]

\* The object literal analyzeJobFit builds from `parsed`.
BuildFit(doc) ==
    IF doc.k = "null"
    THEN [kind |-> "throw", err |-> TypeError, profile |-> NoProfile, fit |-> NoFit]
    ELSE [kind |-> "return", err |-> NoError, profile |-> NoProfile,
          fit |->
            [score |-> ClampScore(doc.score),
             verdict |-> StringNullish(doc.verdict),
             matchingSkills |-> StringList(doc.matchingSkills),
             gaps |-> StringList(doc.gaps),
             strengths |-> StringList(doc.strengths)]]

\* ========================================================================
\* The API key (gemini.ts: getApiKey, setApiKey, getGenAI): data and functions
\* ========================================================================
\* `trimmed.length < 10`
MIN_KEY_LENGTH == 10

\* Callers of setApiKey (the settings form) and of getGenAI (the three
\* operations).
KeyCallers == {"k1", "k2"}

\* A key string: `len` characters, of which `pad` are white space at its ends.
Key(of, len, pad) == [of |-> of, len |-> len, pad |-> pad]

\* null: no cached key, no client, nothing stored.
NoKey == Key("null", 0, 0)

\* What the user submits: keys of 10 and of 9 characters, each also with
\* white space around it, and the empty string.
KeyInputs ==
    {Key("A", MIN_KEY_LENGTH, 0), Key("B", MIN_KEY_LENGTH + 2, 2),
     Key("C", MIN_KEY_LENGTH - 1, 0), Key("D", MIN_KEY_LENGTH + 1, 2),
     Key("", 0, 0)}

InvalidKeyError == MkErr("Error", "API Key invalida. Debe tener al menos 10 caracteres", {}, 0, "", {})
StorageError == MkErr("Error", "storage", {}, 0, "", {})

\* Variant: the client built with the previous key is kept.
setApiKey_tail_keepClient(trimmed, genAI) == [cachedKey |-> trimmed, genAI |-> genAI]

\* setApiKey after `await browser.storage.sync.set`: the two globals.
setApiKey_tail(trimmed, genAI) == [cachedKey |-> trimmed, genAI |-> NoKey]

\* getGenAI after `await getApiKey()`: the key the client it returns was
\* built with (a client is modelled by that key).
getGenAI_tail(genAI, key, cachedKey) ==
    IF genAI = NoKey \/ key # cachedKey THEN key ELSE genAI

\* One call of setApiKey or getGenAI: where it is suspended, its argument,
\* the value it is writing, how it ended; `after` is the key of the last
\* setApiKey that had resolved when the call began, `during` whether a
\* setApiKey resolved while it ran, `failed` whether storage rejected.
NoKeyCall ==
    [pc |-> "idle", fn |-> "none", arg |-> NoKey, value |-> NoKey,
     out |-> [kind |-> "none", err |-> NoError, client |-> NoKey],
     after |-> NoKey, during |-> FALSE, failed |-> FALSE]

\* ------------------------------------------------------------------------
\* The candidate store (src/hooks/useCandidateStore.ts)
\* ------------------------------------------------------------------------
\* saveCandidate calls made in all.
MaxSaves == 3

\* The callers of saveCandidate that may overlap.
Savers == {"s1", "s2"}

\* A stored candidate: the two fields saveCandidate matches on, and which
\* call wrote the entry (it stands for savedAt, matchScore and the rest).
Candidate(url, job, rev) == [profileUrl |-> url, jobId |-> job, rev |-> rev]
NoCandidate == Candidate("", "", 0)

\* What saveCandidate is called with: a profile and a job.
ProfileUrls == {"a", "b"}
JobIds == {"none", "j1"}

\* current.findIndex(c => c.profileUrl === ... && c.jobId === ...): the
\* first matching position, 0 for none (JavaScript's -1).
RECURSIVE findIndexFrom(_, _, _)
findIndexFrom(list, e, i) ==
    IF i > Len(list) THEN 0
    ELSE IF list[i].profileUrl = e.profileUrl /\ list[i].jobId = e.jobId THEN i
    ELSE findIndexFrom(list, e, i + 1)

findIndex(list, e) == findIndexFrom(list, e, 1)

\* `updated`: the entry replaced in place, or the candidate put in front.
Updated(current, enriched) ==
    IF findIndex(current, enriched) > 0
    THEN [current EXCEPT ![findIndex(current, enriched)] = enriched]
    ELSE <<enriched>> \o current

\* Variant: the list is read from the state last set, not from the ref.
ReadCurrent_state(ref, state) == state

\* `const current = candidatesRef.current`.
ReadCurrent(ref, state) == ref

\* The toasts of the store.
NoToast == "null"
SaveToast(current, enriched) ==
    IF findIndex(current, enriched) > 0 THEN "actualizado" ELSE "guardado"
WriteErrorToast(quota) ==
    IF quota THEN "Almacenamiento lleno" ELSE "Error al guardar en storage"
UsageToast == "Almacenamiento al pct%"

\* From this percentage on checkStorageUsage() warns.
USAGE_WARN_PCT == 80

\* Percentages getBytesInUse may amount to.
UsagePcts == {40, 80}

\* A saveCandidate call: where it is, what it was called with, the list it
\* read and the list it built.  `shown`: the store has rendered since the
\* call's setCandidates; `fresh`: the store has not rendered since the call
\* started; `raced`: the calls that had started and were not `shown` when
\* this one started; `sameRead`: those of them that were `fresh`.
NoSave ==
    [pc |-> "idle", arg |-> NoCandidate, isNew |-> FALSE, read |-> <<>>,
     updated |-> <<>>, shown |-> FALSE, fresh |-> FALSE, raced |-> {}, sameRead |-> {}]

\* ------------------------------------------------------------------------
\* State
\* ------------------------------------------------------------------------
VARIABLES
    now,            \* Date.now()
    _lastCallTime,  \* gemini.ts module global
    _callInFlight,  \* gemini.ts module global
    pc,             \* where each invocation is suspended
    op,             \* which exported function the invocation runs
    attempt,        \* the loop variable of the invocation
    lastError,      \* the local lastError of the invocation
    wakeAt,         \* when the pending backoff timer is due
    admitted,       \* whether throttleGuard() let the invocation in
    calls,          \* generateContent calls made by the invocation
    sleeps,         \* delays passed to setTimeout by the invocation
    hist,           \* what its generateContent calls settled with
    outcome         \* how the invocation ended

\* The sidepanel (App.tsx, Icebreaker.tsx): React state the user sees, and
\* which handler is awaiting each invocation.
VARIABLES
    caller,         \* the handler awaiting the invocation ("none": another caller)
    activeJob,      \* the activeJob its closure captured (a job is selected)
    status,         \* App: status
    error,          \* App: error ('' is NoError)
    candidate,      \* App: candidate is not null
    fitResult,      \* App: fitResult is not null
    fitLoading,     \* App: fitLoading
    iceError,       \* Icebreaker: error
    iceLoading,     \* Icebreaker: loading
    iceMessage      \* Icebreaker: message is not ''

uiVars == <<caller, activeJob, status, error, candidate, fitResult, fitLoading,
            iceError, iceLoading, iceMessage>>

\* The page a content script runs in (dom_observer.ts).
VARIABLES
    page,            \* the elements under the scan root: [att, el]
    above,           \* the forbidden rule an ancestor of the scan root matches
    unsupported,     \* the rules the selector engine rejects
    attr,            \* each element's data-mcp-id (0: no attribute)
    outline,         \* each element carries the debug outline
    _mappedElements, \* dom_observer.ts module global
    ret,             \* what mapDOM returned, if it was the last thing to run
    extracted,       \* what extractByIds was asked and returned, if it ran last
    earlier,         \* the elements the scans before the latest one anchored
    latest,          \* the elements the latest scan anchored
    issued,          \* the element the latest scan numbered k, for each k
    previous,        \* the same, for the scan before the latest one
    leftBehind,      \* the elements anchored by scans that raised
    scans,           \* mapDOM calls so far
    edits,           \* page changes so far
    phase            \* the last thing that happened to the page

domVars == <<page, above, unsupported, attr, outline, _mappedElements, ret,
             extracted, earlier, latest, issued, previous, leftBehind, scans, edits,
             phase>>

\* The response normalisation of analyzeCandidateProfile and analyzeJobFit,
\* on its own: what safeParseJSON returned, and what was made of it.
VARIABLES
    normIn,          \* [op, doc, url]: the operation, `parsed`, `pageUrl`
    normOut          \* the record returned, or the error thrown

normVars == <<normIn, normOut>>

\* The API key: chrome.storage.sync and the two globals of gemini.ts.
VARIABLES
    storedKey,       \* storage.sync[STORAGE_KEY_API]
    _cachedKey,      \* gemini.ts module global
    _genAI,          \* gemini.ts module global (the key of the client)
    keyCall,         \* the calls of setApiKey / getGenAI in progress
    lastSet          \* the key of the last setApiKey that resolved

keyVars == <<storedKey, _cachedKey, _genAI, keyCall, lastSet>>

\* The candidate store (useCandidateStore.ts), mounted and loaded.
VARIABLES
    persisted,       \* storage.local[STORAGE_KEY_CANDIDATES]
    candidates,      \* React state: the value last given to setCandidates
    candidatesRef,   \* candidatesRef.current: `candidates` at the last render
    toast,           \* React state: toast
    storageUsage,    \* React state: storageUsage
    usageChecks,     \* checkStorageUsage() calls awaiting getBytesInUse
    saveCall,        \* the saveCandidate call of each caller
    lastWrite,       \* the caller whose storage write settled last
    saves            \* saveCandidate calls so far

storeVars == <<persisted, candidates, candidatesRef, toast, storageUsage,
               usageChecks, saveCall, lastWrite, saves>>

\* State outside the retry loop of gemini.ts; its actions leave it alone.
outerVars == <<uiVars, domVars, normVars, keyVars, storeVars>>

geminiVars == <<now, _lastCallTime, _callInFlight, pc, op, attempt, lastError, wakeAt,
                admitted, calls, sleeps, hist, outcome>>

vars == <<now, _lastCallTime, _callInFlight, pc, op, attempt, lastError, wakeAt,
          admitted, calls, sleeps, hist, outcome, outerVars>>

\* mapDOM's return value: its head ('[ERROR] ', '[EMPTY]' or none) and its
\* mapped lines `[k] <tag> "text"`; `node` and `full` record which element a
\* line came from and its text before truncation, `raised` whether the scan
\* raised an exception.
NoReturn == [head |-> "none", lines |-> <<>>, raised |-> FALSE]
NoExtract == [ids |-> <<>>, result |-> <<>>]

NoOutcome == [kind |-> "none", err |-> NoError, value |-> NoText]
Returned(v) == [kind |-> "return", err |-> NoError, value |-> v]
Threw(e) == [kind |-> "throw", err |-> e, value |-> NoText]

Init ==
    /\ now = T0
    /\ _lastCallTime = 0
    /\ _callInFlight = FALSE
    /\ pc = [p \in Procs |-> "idle"]
    /\ op = [p \in Procs |-> "analyzeCandidateProfile"]
    /\ attempt = [p \in Procs |-> 0]
    /\ lastError = [p \in Procs |-> NoError]
    /\ wakeAt = [p \in Procs |-> 0]
    /\ admitted = [p \in Procs |-> FALSE]
    /\ calls = [p \in Procs |-> 0]
    /\ sleeps = [p \in Procs |-> <<>>]
    /\ hist = [p \in Procs |-> <<>>]
    /\ outcome = [p \in Procs |-> NoOutcome]
    /\ caller = [p \in Procs |-> "none"]
    /\ activeJob = [p \in Procs |-> FALSE]
    /\ status = "ready"
    /\ error = NoError
    /\ candidate = FALSE
    /\ fitResult = FALSE
    /\ fitLoading = FALSE
    /\ iceError = NoError
    /\ iceLoading = FALSE
    /\ iceMessage = FALSE
    /\ page = [n \in Nodes |-> [att |-> FALSE, el |-> NoEl]]
    /\ above = "none"
    /\ unsupported = {}
    /\ attr = [n \in Nodes |-> 0]
    /\ outline = [n \in Nodes |-> FALSE]
    /\ _mappedElements = {}
    /\ ret = NoReturn
    /\ extracted = NoExtract
    /\ earlier = {}
    /\ latest = {}
    /\ issued = <<>>
    /\ previous = <<>>
    /\ leftBehind = {}
    /\ scans = 0
    /\ edits = 0
    /\ phase = "blank"
    /\ normIn = NoInput
    /\ normOut = NoOutput
    /\ storedKey = NoKey
    /\ _cachedKey = NoKey
    /\ _genAI = NoKey
    /\ keyCall = [c \in KeyCallers |-> NoKeyCall]
    /\ lastSet = NoKey
    /\ persisted = <<>>
    /\ candidates = <<>>
    /\ candidatesRef = <<>>
    /\ toast = NoToast
    /\ storageUsage = 0
    /\ usageChecks = 0
    /\ saveCall = [c \in Savers |-> NoSave]
    /\ lastWrite = "none"
    /\ saves = 0

\* Variant: only a settled invocation counts as a pending microtask.
Pending_settledOnly == {p \in Procs : pc[p] = "done"}

\* A settled invocation whose caller has not resumed yet.  The caller's
\* continuation is a microtask: it runs before any timer, network response
\* or user event is handled.  So is the `await getGenAI()` of a call made
\* while a candidate is shown (the automatic and the manual analyzeJobFit,
\* generateOutreachMessage): the profile call that produced the candidate
\* left _cachedKey set, so getApiKey() returns without reading the storage.
Pending ==
    {p \in Procs : \/ pc[p] = "done"
                   \/ /\ pc[p] = "getGenAI"
                      /\ caller[p] \in {"handleAnalyze.autoFit", "handleManualFit",
                                        "handleGenerate"}}

\* The wall clock advances.
Tick ==
    /\ Pending = {}
    /\ now + TickMs <= T0 + TickSpan
    /\ now' = now + TickMs
    /\ UNCHANGED <<_lastCallTime, _callInFlight, pc, op, attempt, lastError, wakeAt,
                   admitted, calls, sleeps, hist, outcome>>
    /\ UNCHANGED outerVars

\* A caller invokes one of the three operations; it runs up to
\* `await getGenAI()`.
Invoke(p, o) ==
    /\ Pending = {}
    /\ pc[p] = "idle"
    /\ now <= T0 + TickSpan
    /\ pc' = [pc EXCEPT ![p] = "getGenAI"]
    /\ op' = [op EXCEPT ![p] = o]
    /\ UNCHANGED <<now, _lastCallTime, _callInFlight, attempt, lastError, wakeAt,
                   admitted, calls, sleeps, hist, outcome>>
    /\ UNCHANGED outerVars

\* The promise of a finished invocation settles: its caller resumes with
\* the result or the error, and the invocation's locals are gone.
Settle(p) ==
    /\ pc[p] = "done"
    /\ pc' = [pc EXCEPT ![p] = "idle"]
    /\ op' = [op EXCEPT ![p] = "analyzeCandidateProfile"]
    /\ attempt' = [attempt EXCEPT ![p] = 0]
    /\ lastError' = [lastError EXCEPT ![p] = NoError]
    /\ wakeAt' = [wakeAt EXCEPT ![p] = 0]
    /\ admitted' = [admitted EXCEPT ![p] = FALSE]
    /\ calls' = [calls EXCEPT ![p] = 0]
    /\ sleeps' = [sleeps EXCEPT ![p] = <<>>]
    /\ hist' = [hist EXCEPT ![p] = <<>>]
    /\ outcome' = [outcome EXCEPT ![p] = NoOutcome]
    /\ UNCHANGED <<now, _lastCallTime, _callInFlight>>
    /\ UNCHANGED outerVars

\* getGenAI() rejects: no API key is configured.
NoApiKey(p) ==
    /\ Pending = {}
    /\ pc[p] = "getGenAI"
    /\ pc' = [pc EXCEPT ![p] = "done"]
    /\ outcome' = [outcome EXCEPT ![p] = Threw(ApiKeyError)]
    /\ UNCHANGED <<now, _lastCallTime, _callInFlight, op, attempt, lastError, wakeAt,
                   admitted, calls, sleeps, hist>>
    /\ UNCHANGED outerVars

\* getGenAI() resolved: throttleGuard(), then the first loop iteration up
\* to `await model.generateContent(...)`.
StartOp(p) ==
    /\ Pending \subseteq {p}
    /\ pc[p] = "getGenAI"
    /\ LET g == throttleGuard(_callInFlight, _lastCallTime, now) IN
       /\ _callInFlight' = g.inFlight
       /\ _lastCallTime' = g.last
       /\ IF g.threw
          THEN /\ pc' = [pc EXCEPT ![p] = "done"]
               /\ outcome' = [outcome EXCEPT ![p] = Threw(g.err)]
               /\ UNCHANGED <<admitted, calls>>
          ELSE /\ pc' = [pc EXCEPT ![p] = "calling"]
               /\ admitted' = [admitted EXCEPT ![p] = TRUE]
               /\ calls' = [calls EXCEPT ![p] = calls[p] + 1]
               /\ UNCHANGED outcome
    /\ UNCHANGED <<now, op, attempt, lastError, wakeAt, sleeps, hist>>
    /\ UNCHANGED outerVars

\* generateContent settles with u: the rest of the try block, the catch
\* block, and either the next iteration up to its setTimeout, or the exit
\* through `finally`.
OnSettled(p, u) ==
    /\ Pending = {}
    /\ pc[p] = "calling"
    /\ hist' = [hist EXCEPT ![p] = Append(hist[p], u)]
    /\ LET t == TryBody(op[p], u)
           c == CatchBlock(op[p], t.err)
       IN
       IF ~t.threw
       THEN \* return ...; finally
            /\ pc' = [pc EXCEPT ![p] = "done"]
            /\ outcome' = [outcome EXCEPT ![p] = Returned(t.value)]
            /\ _callInFlight' = releaseThrottle
            /\ UNCHANGED <<attempt, lastError, wakeAt, sleeps>>
       ELSE /\ lastError' = [lastError EXCEPT ![p] = t.err]
            /\ IF c.act = "throw"
               THEN \* throw ...; finally
                    /\ pc' = [pc EXCEPT ![p] = "done"]
                    /\ outcome' = [outcome EXCEPT ![p] = Threw(c.err)]
                    /\ _callInFlight' = releaseThrottle
                    /\ UNCHANGED <<attempt, wakeAt, sleeps>>
               ELSE \* continue; attempt++
                    /\ attempt' = [attempt EXCEPT ![p] = attempt[p] + 1]
                    /\ IF loopCondition(attempt[p] + 1)
                       THEN \* attempt > 0: await setTimeout(r, delay)
                            /\ pc' = [pc EXCEPT ![p] = "sleeping"]
                            /\ sleeps' = [sleeps EXCEPT ![p] =
                                            Append(sleeps[p], backoffDelay(attempt[p] + 1))]
                            /\ wakeAt' = [wakeAt EXCEPT ![p] = now + backoffDelay(attempt[p] + 1)]
                            /\ UNCHANGED <<_callInFlight, outcome>>
                       ELSE \* loop ends; finally; throw after the loop
                            /\ pc' = [pc EXCEPT ![p] = "done"]
                            /\ outcome' = [outcome EXCEPT ![p] = Threw(ExhaustedError(op[p], t.err))]
                            /\ _callInFlight' = releaseThrottle
                            /\ UNCHANGED <<wakeAt, sleeps>>
    /\ UNCHANGED <<now, _lastCallTime, op, admitted, calls>>
    /\ UNCHANGED outerVars

\* The backoff timer fires (no earlier than its delay): the iteration goes
\* on to `await model.generateContent(...)`.
TimerFires(p) ==
    /\ Pending = {}
    /\ pc[p] = "sleeping"
    /\ now' = IF now < wakeAt[p] THEN wakeAt[p] ELSE now
    /\ pc' = [pc EXCEPT ![p] = "calling"]
    /\ calls' = [calls EXCEPT ![p] = calls[p] + 1]
    /\ UNCHANGED <<_lastCallTime, _callInFlight, op, attempt, lastError, wakeAt,
                   admitted, sleeps, hist, outcome>>
    /\ UNCHANGED outerVars

Next ==
    \/ Tick
    \/ \E p \in Procs, o \in Ops : Invoke(p, o)
    \/ \E p \in Procs : NoApiKey(p)
    \/ \E p \in Procs : StartOp(p)
    \/ \E p \in Procs, u \in Upstream : OnSettled(p, u)
    \/ \E p \in Procs : TimerFires(p)
    \/ \E p \in Procs : Settle(p)

Spec == Init /\ [][Next]_vars

\* ========================================================================
\* Properties
\* ========================================================================
\* An invocation between its successful throttleGuard() and its
\* releaseThrottle().
InFlight(p) == admitted[p] /\ pc[p] \in {"calling", "sleeping"}

\* The step in which invocation p runs throttleGuard().
GuardStep(p) == pc[p] = "getGenAI" /\ pc'[p] # "getGenAI" /\ outcome'[p] # Threw(ApiKeyError)

\* C1: at most one invocation of the three operations is ever in flight,
\* and an invocation that reaches throttleGuard() while another one is in
\* flight ends in that same step with the 'already in progress' error: it
\* is not admitted, does not wait and has called generateContent zero times.
C1_SingleFlight ==
    /\ [](Cardinality({p \in Procs : InFlight(p)}) <= 1)
    /\ [][\A p \in Procs :
            (GuardStep(p) /\ \E q \in Procs \ {p} : InFlight(q))
            => /\ pc'[p] = "done"
               /\ outcome'[p] = Threw(BusyError)
               /\ ~admitted'[p]
               /\ calls'[p] = 0
               /\ sleeps'[p] = <<>>
               /\ now' = now]_vars

\* C1 witness: one invocation is in flight and another has just been
\* rejected as 'already in progress'.
C1_Witness ==
    \E p, q \in Procs :
        /\ p # q
        /\ InFlight(p)
        /\ pc[q] = "done"
        /\ outcome[q] = Threw(BusyError)

\* C2: whenever no admitted invocation is running the in-flight flag is
\* false (every exit path of an admitted invocation has cleared it), and an
\* invocation is rejected as 'already in progress' only while another
\* invocation really is in flight.
C2_ReleasedOnEveryExit ==
    /\ (_callInFlight <=> \E p \in Procs : InFlight(p))
    /\ \A p \in Procs :
         (pc[p] = "done" /\ admitted[p]) => ~_callInFlight
    /\ \A p \in Procs :
         (pc[p] = "done" /\ outcome[p] = Threw(BusyError))
         => \E q \in Procs \ {p} : InFlight(q)

\* C2 witness: an admitted invocation has ended by an error after a retry
\* and the flag is clear.
C2_Witness ==
    \E p \in Procs :
        /\ pc[p] = "done"
        /\ admitted[p]
        /\ outcome[p].kind = "throw"
        /\ calls[p] >= 2
        /\ ~_callInFlight

\* C3: with no call in flight, a throttleGuard() run less than 2000 ms
\* after the last admission rejects with the wait-time error whose N is
\* ceil((2000 - elapsed) / 1000), which is 1 or 2; run 2000 ms or more after
\* it, the call is admitted.
C3_MinGap ==
    [][\A p \in Procs :
         (GuardStep(p) /\ ~_callInFlight)
         => IF now - _lastCallTime < 2000
            THEN /\ pc'[p] = "done"
                 /\ ~admitted'[p]
                 /\ \E n \in {1, 2} :
                      /\ outcome'[p] = Threw(WaitError(n))
                      /\ (n - 1) * 1000 < 2000 - (now - _lastCallTime)
                      /\ 2000 - (now - _lastCallTime) <= n * 1000
                 /\ _lastCallTime' = _lastCallTime
            ELSE /\ admitted'[p]
                 /\ pc'[p] = "calling"
                 /\ _lastCallTime' = now]_vars

\* C3 witness: after an earlier admission, a call made between 1000 and
\* 2000 ms after it has been rejected with 'Espera 1s'.
C3_Witness ==
    \E p \in Procs :
        /\ pc[p] = "done"
        /\ outcome[p] = Threw(WaitError(1))
        /\ _lastCallTime >= T0
        /\ ~_callInFlight

\* ------------------------------------------------------------------------
\* Upstream outcomes as the claims class them
\* ------------------------------------------------------------------------
HasRateLimitWords(m) == "429" \in m \/ "quota" \in m \/ "Quota" \in m
HasDailyWords(m) == "limit: 0" \in m /\ "PerDay" \in m

\* generateContent rejected with a transient rate-limit error
TransientFailure(u) == ~u.ok /\ HasRateLimitWords(u.err.marks) /\ ~HasDailyWords(u.err.marks)
\* generateContent rejected with the daily-quota signature
DailyFailure(u) == ~u.ok /\ HasRateLimitWords(u.err.marks) /\ HasDailyWords(u.err.marks)
\* generateContent rejected with an error that is no rate-limit signature
OtherFailure(u) == ~u.ok /\ ~HasRateLimitWords(u.err.marks)
\* generateContent resolved with a text that operation o accepts
Success(o, u) ==
    /\ u.ok
    /\ o \in JsonOps => u.text.json = "object"
    /\ o \notin JsonOps => u.text.len >= 20
\* generateContent resolved with a text that fails JSON parsing
Unparseable(u) == u.ok /\ u.text.json = "invalid"

AllTransient(h, k) == \A i \in 1..k : TransientFailure(h[i])

DailyQuotaIds == {"Cuota diaria agotada para el free tier de Gemini",
                  "Cuota diaria agotada. Espera ~24h o usa otra API Key"}
InvalidJsonIds == {"Gemini devolvio una respuesta que no es JSON valido",
                   "Gemini devolvio JSON invalido en analisis de fit"}
ExhaustedIds == {"Gemini no respondio despues de N intentos. Ultimo error",
                 "Fit analysis failed after N attempts. Last",
                 "Outreach generation failed after N attempts. Last"}

\* C4: after k = 1 or 2 transient rate-limit failures the operation goes on
\* to generateContent call k+1, and when that call succeeds the operation
\* ends there, having made exactly k+1 calls, and returns the result built
\* from that response.
C4_RetryThenSuccess ==
    \A p \in Procs : \A k \in {1, 2} :
        /\ (Len(hist[p]) = k /\ AllTransient(hist[p], k))
           => /\ pc[p] \in {"sleeping", "calling"}
              /\ calls[p] = IF pc[p] = "calling" THEN k + 1 ELSE k
        /\ (Len(hist[p]) >= k + 1 /\ AllTransient(hist[p], k) /\ Success(op[p], hist[p][k + 1]))
           => /\ pc[p] = "done"
              /\ Len(hist[p]) = k + 1
              /\ calls[p] = k + 1
              /\ outcome[p] = Returned(hist[p][k + 1].text)

\* C4 witness: an operation has returned the response of its third call
\* after two transient failures.
C4_Witness ==
    \E p \in Procs :
        /\ pc[p] = "done"
        /\ Len(hist[p]) = 3
        /\ AllTransient(hist[p], 2)
        /\ Success(op[p], hist[p][3])
        /\ outcome[p].kind = "return"

\* C5: a generateContent failure carrying the daily-quota signature is the
\* last call of the operation: the operation ends with the daily-quota
\* error, makes no further call and starts no backoff sleep after it; on the
\* first attempt that is exactly one call.
C5_DailyQuotaNoRetry ==
    \A p \in Procs : \A i \in 1..Len(hist[p]) :
        DailyFailure(hist[p][i])
        => /\ i = Len(hist[p])
           /\ pc[p] = "done"
           /\ outcome[p].kind = "throw"
           /\ outcome[p].err.id \in DailyQuotaIds
           /\ calls[p] = i
           /\ Len(sleeps[p]) = i - 1

\* C5 witness: the first attempt failed with the daily-quota signature.
C5_Witness ==
    \E p \in Procs :
        /\ pc[p] = "done"
        /\ Len(hist[p]) = 1
        /\ DailyFailure(hist[p][1])
        /\ calls[p] = 1

\* C6: in analyzeCandidateProfile and analyzeJobFit a response text that
\* fails JSON parsing ends the operation with the invalid-JSON error after
\* that attempt, with no further call and no sleep, whatever the text
\* contains.
C6_MalformedNoRetry ==
    \A p \in Procs : \A i \in 1..Len(hist[p]) :
        (op[p] \in JsonOps /\ Unparseable(hist[p][i]))
        => /\ i = Len(hist[p])
           /\ pc[p] = "done"
           /\ outcome[p].kind = "throw"
           /\ outcome[p].err.id \in InvalidJsonIds
           /\ calls[p] = i
           /\ Len(sleeps[p]) = i - 1

\* C7: when the three attempts all fail with transient rate-limit errors
\* the operation has made exactly three calls and throws the terminal error
\* that carries the attempt count 3 and the message of the third error.
C7_RetriesExhausted ==
    \A p \in Procs :
        (Len(hist[p]) >= 3 /\ AllTransient(hist[p], 3))
        => /\ pc[p] = "done"
           /\ Len(hist[p]) = 3
           /\ calls[p] = 3
           /\ outcome[p].kind = "throw"
           /\ outcome[p].err.id \in ExhaustedIds
           /\ outcome[p].err.n = 3
           /\ outcome[p].err.lastId = hist[p][3].err.id
           /\ outcome[p].err.lastMarks = hist[p][3].err.marks

\* C7 witness: three transient failures, the third with another message
\* than the first.
C7_Witness ==
    \E p \in Procs :
        /\ pc[p] = "done"
        /\ Len(hist[p]) = 3
        /\ AllTransient(hist[p], 3)
        /\ hist[p][3].err.marks # hist[p][1].err.marks
        /\ outcome[p].err.id \in ExhaustedIds

\* C8: an error raised by an attempt that is neither a rate-limit
\* signature nor a parse failure ends the operation in that attempt: the
\* same error is thrown, with no further call and no sleep after it.
C8_OtherErrorPropagates ==
    \A p \in Procs : \A i \in 1..Len(hist[p]) :
        /\ OtherFailure(hist[p][i])
           => /\ i = Len(hist[p])
              /\ pc[p] = "done"
              /\ outcome[p] = Threw(hist[p][i].err)
              /\ calls[p] = i
              /\ Len(sleeps[p]) = i - 1
        /\ (op[p] \notin JsonOps /\ hist[p][i].ok /\ hist[p][i].text.len < 20)
           => /\ i = Len(hist[p])
              /\ pc[p] = "done"
              /\ outcome[p] = Threw(TooShortError)
              /\ calls[p] = i
              /\ Len(sleeps[p]) = i - 1

\* C8 witness: an unclassified upstream error on the second attempt has
\* been rethrown.
C8_Witness ==
    \E p \in Procs :
        /\ pc[p] = "done"
        /\ Len(hist[p]) = 2
        /\ OtherFailure(hist[p][2])
        /\ outcome[p].kind = "throw"
        /\ outcome[p].err.id = "upstream"

\* C9: the only sleeps of an operation are 30000 ms before its second
\* attempt and 60000 ms before its third: none before the first attempt,
\* none after the third, and the clock has advanced by at least the slept
\* delays since the operation was admitted.
C9_BackoffDelays ==
    \A p \in Procs :
        /\ Len(sleeps[p]) <= 2
        /\ Len(sleeps[p]) >= 1 => sleeps[p][1] = 30000
        /\ Len(sleeps[p]) >= 2 => sleeps[p][2] = 60000
        /\ calls[p] <= 3
        /\ pc[p] = "calling" => Len(sleeps[p]) = calls[p] - 1
        /\ pc[p] = "sleeping" => Len(sleeps[p]) = calls[p]
        /\ (pc[p] = "done" /\ admitted[p]) => Len(sleeps[p]) = calls[p] - 1
        /\ (pc[p] = "calling" /\ calls[p] = 2) => now - _lastCallTime >= 30000
        /\ (pc[p] = "calling" /\ calls[p] = 3) => now - _lastCallTime >= 90000

\* C9 witness: the third attempt is under way after both sleeps.
C9_Witness ==
    \E p \in Procs :
        /\ pc[p] = "calling"
        /\ calls[p] = 3
        /\ sleeps[p] = <<30000, 60000>>

\* The four upstream outcomes the three call sites are compared on; a
\* success is a text every call site accepts.
Class(u) ==
    CASE TransientFailure(u) -> "transient"
      [] DailyFailure(u) -> "daily"
      [] OtherFailure(u) -> "other"
      [] u.ok /\ u.text.json = "object" /\ u.text.len >= 20 -> "success"
      [] OTHER -> "outside"

\* The kind of outcome an invocation ended with.
Kind(out) ==
    CASE out.kind = "return" -> "result"
      [] out.kind = "throw" /\ out.err.id \in DailyQuotaIds -> "quota-exhausted"
      [] out.kind = "throw" /\ out.err.id \in ExhaustedIds -> "retries-exhausted"
      [] out.kind = "throw" /\ out.err.id = "upstream" -> "propagated"
      [] OTHER -> "another"

\* C10: the number of attempts, the delays slept and the kind of outcome of
\* an admitted invocation are determined by the sequence of upstream
\* outcomes alone, by one policy that does not mention the call site: every
\* outcome before the last is a transient rate limit, attempt i+1 follows
\* failure i after the i-th delay of <<30000, 60000>>, and the invocation
\* ends at the first success (result), daily-quota failure (quota-exhausted
\* error) or other failure (propagated error), or at the third transient
\* failure (retries-exhausted error).
C10_SamePolicyAtEveryCallSite ==
    \A p \in Procs :
        (hist[p] # <<>> /\ \A i \in 1..Len(hist[p]) : Class(hist[p][i]) # "outside")
        => LET n == Len(hist[p])
               last == Class(hist[p][n])
           IN
           /\ \A i \in 1..(n - 1) : Class(hist[p][i]) = "transient"
           /\ (pc[p] = "done") <=> (last # "transient" \/ n = 3)
           /\ calls[p] = IF pc[p] = "calling" THEN n + 1 ELSE n
           /\ sleeps[p] = SubSeq(<<30000, 60000>>, 1, IF pc[p] = "done" THEN n - 1 ELSE n)
           /\ pc[p] = "done"
              => Kind(outcome[p]) =
                   CASE last = "success" -> "result"
                     [] last = "daily" -> "quota-exhausted"
                     [] last = "other" -> "propagated"
                     [] OTHER -> "retries-exhausted"

\* C10 witness: generateOutreachMessage has ended with a result on its
\* third attempt, as the policy says.
C10_Witness ==
    \E p \in Procs :
        /\ pc[p] = "done"
        /\ op[p] = "generateOutreachMessage"
        /\ Len(hist[p]) = 3
        /\ \A i \in 1..3 : Class(hist[p][i]) # "outside"
        /\ Kind(outcome[p]) = "result"

\* ========================================================================
\* The sidepanel: the handlers that call the three operations
\* (entrypoints/sidepanel/App.tsx, src/components/Icebreaker.tsx)
\* ========================================================================
Handlers == {"handleAnalyze", "handleAnalyze.autoFit", "handleManualFit", "handleGenerate"}

\* What generateContent settles with in the sidepanel scenarios: a good
\* response, a transient rate limit, another failure.
UiUpstream ==
    {Resolved(MkText("profileA", "object", {}, 40)),
     Rejected(UpstreamErr({"429"})),
     Rejected(UpstreamErr({}))}

\* The error handleAnalyze shows when the page scan fails.
ScanError == MkErr("Error", "Error del content script.", {}, 0, "", {})

\* The invocation slot p after its caller took the result: idle, or running
\* the next call up to `await getGenAI()`.
Slot(p, nextPc, nextOp) ==
    /\ pc' = [pc EXCEPT ![p] = nextPc]
    /\ op' = [op EXCEPT ![p] = nextOp]
    /\ attempt' = [attempt EXCEPT ![p] = 0]
    /\ lastError' = [lastError EXCEPT ![p] = NoError]
    /\ wakeAt' = [wakeAt EXCEPT ![p] = 0]
    /\ admitted' = [admitted EXCEPT ![p] = FALSE]
    /\ calls' = [calls EXCEPT ![p] = 0]
    /\ sleeps' = [sleeps EXCEPT ![p] = <<>>]
    /\ hist' = [hist EXCEPT ![p] = <<>>]
    /\ outcome' = [outcome EXCEPT ![p] = NoOutcome]
    /\ UNCHANGED <<now, _lastCallTime, _callInFlight>>

\* The user clicks "analyze": handleAnalyze up to `await browser.tabs.query`.
\* The button is disabled while status is 'scanning' or 'analyzing'.
ClickAnalyze(p, job) ==
    /\ Pending = {}
    /\ now <= T0 + TickSpan
    /\ pc[p] = "idle" /\ caller[p] = "none"
    /\ status \notin {"scanning", "analyzing"}
    /\ caller' = [caller EXCEPT ![p] = "handleAnalyze"]
    /\ activeJob' = [activeJob EXCEPT ![p] = job]
    /\ status' = "scanning"
    /\ error' = NoError
    /\ candidate' = FALSE
    /\ fitResult' = FALSE
    /\ UNCHANGED <<fitLoading, iceError, iceLoading, iceMessage>>
    /\ UNCHANGED <<now, _lastCallTime, _callInFlight, pc, op, attempt, lastError,
                   wakeAt, admitted, calls, sleeps, hist, outcome>>
    /\ UNCHANGED <<domVars, normVars, keyVars, storeVars>>

\* The content script answered (or failed): handleAnalyze goes on to call
\* analyzeCandidateProfile, or shows the scan error.
ScanSettled(p, ok) ==
    /\ Pending = {}
    /\ pc[p] = "idle" /\ caller[p] = "handleAnalyze"
    /\ IF ok
       THEN /\ status' = "analyzing"
            /\ pc' = [pc EXCEPT ![p] = "getGenAI"]
            /\ op' = [op EXCEPT ![p] = "analyzeCandidateProfile"]
            /\ UNCHANGED <<caller, error>>
       ELSE /\ status' = "error"
            /\ error' = ScanError
            /\ caller' = [caller EXCEPT ![p] = "none"]
            /\ UNCHANGED <<pc, op>>
    /\ UNCHANGED <<activeJob, candidate, fitResult, fitLoading, iceError, iceLoading,
                   iceMessage>>
    /\ UNCHANGED <<now, _lastCallTime, _callInFlight, attempt, lastError, wakeAt,
                   admitted, calls, sleeps, hist, outcome>>
    /\ UNCHANGED <<domVars, normVars, keyVars, storeVars>>

\* The user clicks "evaluate fit": handleManualFit up to `await getGenAI()`.
\* The button needs a candidate and a selected job, and is disabled while
\* fitLoading.
ClickManualFit(p) ==
    /\ Pending = {}
    /\ now <= T0 + TickSpan
    /\ pc[p] = "idle" /\ caller[p] = "none"
    /\ candidate /\ ~fitLoading
    /\ caller' = [caller EXCEPT ![p] = "handleManualFit"]
    /\ activeJob' = [activeJob EXCEPT ![p] = TRUE]
    /\ fitLoading' = TRUE
    /\ fitResult' = FALSE
    /\ pc' = [pc EXCEPT ![p] = "getGenAI"]
    /\ op' = [op EXCEPT ![p] = "analyzeJobFit"]
    /\ UNCHANGED <<status, error, candidate, iceError, iceLoading, iceMessage>>
    /\ UNCHANGED <<now, _lastCallTime, _callInFlight, attempt, lastError, wakeAt,
                   admitted, calls, sleeps, hist, outcome>>
    /\ UNCHANGED <<domVars, normVars, keyVars, storeVars>>

\* The user clicks "generate message": handleGenerate up to
\* `await getGenAI()`.  The buttons are not rendered while loading.
ClickGenerate(p) ==
    /\ Pending = {}
    /\ now <= T0 + TickSpan
    /\ pc[p] = "idle" /\ caller[p] = "none"
    /\ candidate /\ ~iceLoading
    /\ caller' = [caller EXCEPT ![p] = "handleGenerate"]
    /\ iceLoading' = TRUE
    /\ iceError' = NoError
    /\ iceMessage' = FALSE
    /\ pc' = [pc EXCEPT ![p] = "getGenAI"]
    /\ op' = [op EXCEPT ![p] = "generateOutreachMessage"]
    /\ UNCHANGED <<activeJob, status, error, candidate, fitResult, fitLoading>>
    /\ UNCHANGED <<now, _lastCallTime, _callInFlight, attempt, lastError, wakeAt,
                   admitted, calls, sleeps, hist, outcome>>
    /\ UNCHANGED <<domVars, normVars, keyVars, storeVars>>

\* The awaited operation settled: the handler's continuation.
Resume(p) ==
    /\ pc[p] = "done" /\ caller[p] \in Handlers
    /\ LET ok == outcome[p].kind = "return"
           e == outcome[p].err
       IN
       CASE caller[p] = "handleAnalyze" ->
              IF ok /\ activeJob[p]
              THEN \* setCandidate; setFitLoading(true); analyzeJobFit(...)
                   /\ candidate' = TRUE
                   /\ fitLoading' = TRUE
                   /\ caller' = [caller EXCEPT ![p] = "handleAnalyze.autoFit"]
                   /\ Slot(p, "getGenAI", "analyzeJobFit")
                   /\ UNCHANGED <<status, error, fitResult, iceError, iceLoading, iceMessage>>
              ELSE \* setCandidate; setStatus('done') -- or the outer catch
                   /\ candidate' = (candidate \/ ok)
                   /\ status' = IF ok THEN "done" ELSE "error"
                   /\ error' = IF ok THEN error ELSE e
                   /\ caller' = [caller EXCEPT ![p] = "none"]
                   /\ Slot(p, "idle", "analyzeCandidateProfile")
                   /\ UNCHANGED <<fitResult, fitLoading, iceError, iceLoading, iceMessage>>
         [] caller[p] = "handleAnalyze.autoFit" ->
              \* setFitResult, or console.warn; setFitLoading(false); setStatus('done')
              /\ fitResult' = (fitResult \/ ok)
              /\ fitLoading' = FALSE
              /\ status' = "done"
              /\ caller' = [caller EXCEPT ![p] = "none"]
              /\ Slot(p, "idle", "analyzeCandidateProfile")
              /\ UNCHANGED <<error, candidate, iceError, iceLoading, iceMessage>>
         [] caller[p] = "handleManualFit" ->
              \* setFitResult, or setError; finally setFitLoading(false)
              /\ fitResult' = (fitResult \/ ok)
              /\ error' = IF ok THEN error ELSE e
              /\ fitLoading' = FALSE
              /\ caller' = [caller EXCEPT ![p] = "none"]
              /\ Slot(p, "idle", "analyzeCandidateProfile")
              /\ UNCHANGED <<status, candidate, iceError, iceLoading, iceMessage>>
         [] caller[p] = "handleGenerate" ->
              \* setMessage, or setError; finally setLoading(false)
              /\ iceMessage' = (iceMessage \/ ok)
              /\ iceError' = IF ok THEN iceError ELSE e
              /\ iceLoading' = FALSE
              /\ caller' = [caller EXCEPT ![p] = "none"]
              /\ Slot(p, "idle", "analyzeCandidateProfile")
              /\ UNCHANGED <<status, error, candidate, fitResult, fitLoading>>
    /\ UNCHANGED activeJob
    /\ UNCHANGED <<domVars, normVars, keyVars, storeVars>>

NextUI ==
    \/ Tick
    \/ \E p \in Procs, job \in BOOLEAN : ClickAnalyze(p, job)
    \/ \E p \in Procs, ok \in BOOLEAN : ScanSettled(p, ok)
    \/ \E p \in Procs : ClickManualFit(p)
    \/ \E p \in Procs : ClickGenerate(p)
    \/ \E p \in Procs : NoApiKey(p)
    \/ \E p \in Procs : StartOp(p)
    \/ \E p \in Procs, u \in UiUpstream : OnSettled(p, u)
    \/ \E p \in Procs : TimerFires(p)
    \/ \E p \in Procs : Resume(p)

SpecUI == Init /\ [][NextUI]_vars

\* The guard rejected the invocation that handler h awaits in slot p.
GuardRejected(p) ==
    /\ pc[p] = "done" /\ caller[p] \in Handlers
    /\ outcome[p].kind = "throw"
    /\ outcome[p].err \in {BusyError} \cup {WaitError(n) : n \in 1..2}

\* C11: whenever the throttle guard rejects an AI operation started from the
\* sidepanel (profile extraction, the automatic fit scoring after it, manual
\* fit scoring, outreach generation), the handler's continuation puts the
\* rejection message into the error state the user sees (App's error, or
\* Icebreaker's error for outreach) and does not call the operation again.
C11_RejectionSurfaced ==
    [][\A p \in Procs :
         (GuardRejected(p) /\ pc'[p] # "done")
             => /\ IF caller[p] = "handleGenerate"
                   THEN iceError' = outcome[p].err
                   ELSE error' = outcome[p].err
                /\ pc'[p] = "idle"]_vars

\* ========================================================================
\* The DOM mapper: mapDOM, extractByIds and the page changing under them
\* ========================================================================
geminiAndUi == <<geminiVars, uiVars, normVars, keyVars, storeVars>>

\* Variant: the attribute is removed but the outline is left.
clearPreviousMapping_keepOutline(at, ol, mapped) ==
    [attr |-> [n \in Nodes |-> IF n \in mapped THEN 0 ELSE at[n]],
     outline |-> ol,
     mapped |-> {}]

\* Variant: the outline is removed but the attribute is left.
clearPreviousMapping_keepAttribute(at, ol, mapped) ==
    [attr |-> at,
     outline |-> [n \in Nodes |-> IF n \in mapped THEN FALSE ELSE ol[n]],
     mapped |-> {}]

\* Variant: the set is emptied without cleaning its elements.
clearPreviousMapping_forget(at, ol, mapped) ==
    [attr |-> at, outline |-> ol, mapped |-> {}]

\* clearPreviousMapping(): every element of _mappedElements loses its
\* attribute and its outline, and the set is emptied.
clearPreviousMapping(at, ol, mapped) ==
    [attr |-> [n \in Nodes |-> IF n \in mapped THEN 0 ELSE at[n]],
     outline |-> [n \in Nodes |-> IF n \in mapped THEN FALSE ELSE ol[n]],
     mapped |-> {}]

\* One output line: `[k] <tag> "text"`.
Line(k, tag, text, n, full) ==
    [k |-> k, tag |-> tag, text |-> text, node |-> n, full |-> full]

\* Variant: the exception is raised between setAttribute and
\* _mappedElements.add.
VisitEl_untracked(env, st, n) ==
    LET e == env.pg[n].el
        text == TextOf(e)
    IN
    IF ~InDoc(env.pg, n) THEN st
    ELSE IF ~e.visible THEN st
    ELSE IF isInsideForbiddenZone(env.pg, env.above, env.unsupported, n) THEN st
    ELSE IF Length(text) < MIN_TEXT_LENGTH THEN st
    ELSE IF env.fail = n
    THEN [st EXCEPT !.threw = TRUE, !.counter = @ + 1, !.attr[n] = st.counter + 1]
    ELSE [st EXCEPT
            !.counter = @ + 1,
            !.attr[n] = st.counter + 1,
            !.mapped = @ \cup {n},
            !.outline[n] = (env.debug \/ @),
            !.lines = Append(@, Line(st.counter + 1, e.tag, Truncate(text), n, text))]

\* One iteration of mapDOM's loop, for element n.  env.fail = n: handling
\* the element raises an exception.
VisitEl(env, st, n) ==
    LET e == env.pg[n].el
        text == TextOf(e)
    IN
    IF ~InDoc(env.pg, n) THEN st
    ELSE IF env.fail = n THEN [st EXCEPT !.threw = TRUE]
    ELSE IF ~e.visible THEN st
    ELSE IF isInsideForbiddenZone(env.pg, env.above, env.unsupported, n) THEN st
    ELSE IF Length(text) < MIN_TEXT_LENGTH THEN st
    ELSE [st EXCEPT
            !.counter = @ + 1,
            !.attr[n] = st.counter + 1,
            !.mapped = @ \cup {n},
            !.outline[n] = (env.debug \/ @),
            !.lines = Append(@, Line(st.counter + 1, e.tag, Truncate(text), n, text))]

RECURSIVE ScanLoop(_, _, _)
ScanLoop(env, st, n) ==
    IF n > MaxNodes \/ st.threw
    THEN st
    ELSE ScanLoop(env, VisitEl(env, st, n), n + 1)

\* Variant: the exception is caught inside the loop and the lines gathered
\* so far are returned.
Outcome_linesOnError(st) ==
    IF st.lines = <<>>
    THEN [head |-> "[EMPTY]", lines |-> <<>>]
    ELSE [head |-> "", lines |-> st.lines]

\* What mapDOM returns: from its catch block, or after its loop.
Outcome(st) ==
    IF st.threw
    THEN [head |-> "[ERROR] ", lines |-> <<>>]
    ELSE IF st.lines = <<>>
    THEN [head |-> "[EMPTY]", lines |-> <<>>]
    ELSE [head |-> "", lines |-> st.lines]

\* How a scan can fail: not at all (0), in getScanRoot / querySelectorAll
\* (-1), or while handling element n.
Fails == {-1} \cup (0..MaxNodes)

\* The pages the content script can find itself in.
Pages ==
    {pg \in [Nodes -> UNION {Catalogue(n) : n \in Nodes}] :
        \A n \in Nodes : pg[n] \in Catalogue(n)}

\* What surrounds the scan root: the forbidden rule an ancestor of the root
\* matches, and the rules of the list the selector engine rejects.
Surroundings ==
    {[above |-> "none", unsupported |-> {}],
     [above |-> "r1", unsupported |-> {}]}

\* The same, in a selector engine that rejects rule r2.
SurroundingsRejecting ==
    {[above |-> "none", unsupported |-> {"r2"}],
     [above |-> "r1", unsupported |-> {"r2"}]}

\* The page renders.
Load(pg, ab, un) ==
    /\ phase = "blank"
    /\ page' = [n \in Nodes |-> [att |-> TRUE, el |-> pg[n]]]
    /\ above' = ab
    /\ unsupported' = un
    /\ phase' = "page"
    /\ UNCHANGED <<attr, outline, _mappedElements, ret, extracted, earlier, latest,
                   issued, previous, leftBehind, scans, edits>>
    /\ UNCHANGED geminiAndUi

\* mapDOM(debug).
mapDOM(debug, fail) ==
    /\ scans < MaxScans
    /\ LET c == clearPreviousMapping(attr, outline, _mappedElements)
           env == [pg |-> page, above |-> above, unsupported |-> unsupported,
                   debug |-> debug, fail |-> fail]
           st0 == [counter |-> 0, lines |-> <<>>, attr |-> c.attr,
                   outline |-> c.outline, mapped |-> c.mapped,
                   threw |-> (fail = -1)]
           st == ScanLoop(env, st0, 1)
       IN
       /\ attr' = st.attr
       /\ outline' = st.outline
       /\ _mappedElements' = st.mapped
       /\ ret' = [head |-> Outcome(st).head, lines |-> Outcome(st).lines,
                  raised |-> st.threw]
       /\ earlier' = earlier \cup latest
       /\ latest' = st.mapped
       /\ previous' = issued
       /\ issued' = [k \in 1..Len(st.lines) |-> st.lines[k].node]
       /\ leftBehind' = IF st.threw THEN leftBehind \cup st.mapped ELSE leftBehind
    /\ scans' = scans + 1
    /\ phase' = "mapDOM"
    /\ extracted' = NoExtract
    /\ UNCHANGED <<page, above, unsupported, edits>>
    /\ UNCHANGED geminiAndUi

\* The page changes element n in place (its text, its attributes, its
\* style): the element keeps its tag and what the mapper put on it.
Change(n, e) ==
    /\ phase # "blank" /\ edits < MaxEdits
    /\ e.tag = page[n].el.tag /\ e # page[n].el
    /\ page' = [page EXCEPT ![n].el = e]
    /\ edits' = edits + 1
    /\ phase' = "page"
    /\ ret' = NoReturn
    /\ extracted' = NoExtract
    /\ UNCHANGED <<above, unsupported, attr, outline, _mappedElements, earlier, latest,
                   issued, previous, leftBehind, scans>>
    /\ UNCHANGED geminiAndUi

\* The page removes element n (with its subtree) from the document.
Remove(n) ==
    /\ phase # "blank" /\ edits < MaxEdits
    /\ page[n].att
    /\ page' = [page EXCEPT ![n].att = FALSE]
    /\ edits' = edits + 1
    /\ phase' = "page"
    /\ ret' = NoReturn
    /\ extracted' = NoExtract
    /\ UNCHANGED <<above, unsupported, attr, outline, _mappedElements, earlier, latest,
                   issued, previous, leftBehind, scans>>
    /\ UNCHANGED geminiAndUi

\* The page puts a new element e where element n was; the old element is
\* gone for good and is not followed any further.
Replace(n, e) ==
    /\ phase # "blank" /\ edits < MaxEdits
    /\ page' = [page EXCEPT ![n] = [att |-> TRUE, el |-> e]]
    /\ attr' = [attr EXCEPT ![n] = 0]
    /\ outline' = [outline EXCEPT ![n] = FALSE]
    /\ _mappedElements' = _mappedElements \ {n}
    /\ earlier' = earlier \ {n}
    /\ latest' = latest \ {n}
    /\ issued' = [k \in DOMAIN issued |-> IF issued[k] = n THEN 0 ELSE issued[k]]
    /\ previous' = [k \in DOMAIN previous |-> IF previous[k] = n THEN 0 ELSE previous[k]]
    /\ leftBehind' = leftBehind \ {n}
    /\ edits' = edits + 1
    /\ phase' = "page"
    /\ ret' = NoReturn
    /\ extracted' = NoExtract
    /\ UNCHANGED <<above, unsupported, scans>>
    /\ UNCHANGED geminiAndUi

\* document.querySelector(`[data-mcp-id="${id}"]`): the first connected
\* element, in document order, that carries the value; 0 when there is none.
RECURSIVE querySelector(_, _, _, _)
querySelector(pg, at, id, n) ==
    IF n > MaxNodes THEN 0
    ELSE IF InDoc(pg, n) /\ at[n] = id THEN n
    ELSE querySelector(pg, at, id, n + 1)

\* The length of el.textContent after whitespace normalisation: the
\* element's direct text and that of the elements attached under it.
RECURSIVE TextContentFrom(_, _, _)
TextContentFrom(pg, n, m) ==
    IF m > MaxNodes THEN 0
    ELSE (IF n \in SelfAndAncestors(m) /\ \A a \in SelfAndAncestors(m) \ SelfAndAncestors(n) : pg[a].att
          THEN pg[m].el.text ELSE 0)
         + TextContentFrom(pg, n, m + 1)

NOT_FOUND == [tag |-> "NOT_FOUND", text |-> Str("", 0), href |-> 0]

\* The entry extractByIds builds for an element.
Entry(pg, n) ==
    [tag |-> pg[n].el.tag,
     text |-> Truncate(Str("textContent", TextContentFrom(pg, n, n))),
     href |-> IF pg[n].el.tag = "A" THEN pg[n].el.href ELSE 0]

\* Variant: the loop ends at the first anchor that is not found.
RECURSIVE ExtractLoop_break(_, _, _, _, _)
ExtractLoop_break(pg, at, ids, k, result) ==
    IF k > Len(ids) THEN result
    ELSE LET n == querySelector(pg, at, ids[k], 1) IN
         IF n = 0
         THEN [i \in DOMAIN result \cup {ids[k]} |-> IF i = ids[k] THEN NOT_FOUND ELSE result[i]]
         ELSE ExtractLoop_break(pg, at, ids, k + 1,
                [i \in DOMAIN result \cup {ids[k]} |->
                    IF i = ids[k] THEN Entry(pg, n) ELSE result[i]])

\* The loop of extractByIds from the k-th requested id on.
RECURSIVE ExtractLoop(_, _, _, _, _)
ExtractLoop(pg, at, ids, k, result) ==
    IF k > Len(ids) THEN result
    ELSE LET n == querySelector(pg, at, ids[k], 1) IN
         ExtractLoop(pg, at, ids, k + 1,
            [i \in DOMAIN result \cup {ids[k]} |->
                IF i = ids[k]
                THEN (IF n = 0 THEN NOT_FOUND ELSE Entry(pg, n))
                ELSE result[i]])

\* The id lists extractByIds is called with.
Requests == {<<1>>, <<2, MaxNodes + 1, 1>>}

\* extractByIds(ids).
extractByIds(ids) ==
    /\ phase # "blank"
    /\ extracted' = [ids |-> ids, result |-> ExtractLoop(page, attr, ids, 1, <<>>)]
    /\ extracted' # extracted
    /\ phase' = "extractByIds"
    /\ ret' = NoReturn
    /\ UNCHANGED <<page, above, unsupported, attr, outline, _mappedElements,
                   earlier, latest, issued, previous, leftBehind, scans, edits>>
    /\ UNCHANGED geminiAndUi

NextDom ==
    \/ \E pg \in Pages, env \in Surroundings : Load(pg, env.above, env.unsupported)
    \/ \E debug \in BOOLEAN, fail \in Fails : mapDOM(debug, fail)
    \/ \E n \in Nodes : \E e \in Catalogue(n) : Change(n, e)
    \/ \E n \in Nodes : Remove(n)
    \/ \E n \in Nodes : \E e \in Catalogue(n) : Replace(n, e)
    \/ \E ids \in Requests : extractByIds(ids)

SpecDom == Init /\ [][NextDom]_vars

\* The mapper in an engine that rejects one rule of FORBIDDEN_ZONES.
NextDomRejecting ==
    \/ \E pg \in Pages, env \in SurroundingsRejecting :
            Load(pg, env.above, env.unsupported)
    \/ \E debug \in BOOLEAN, fail \in Fails : mapDOM(debug, fail)
    \/ \E n \in Nodes : \E e \in Catalogue(n) : Change(n, e)
    \/ \E n \in Nodes : Remove(n)
    \/ \E n \in Nodes : \E e \in Catalogue(n) : Replace(n, e)
    \/ \E ids \in Requests : extractByIds(ids)

SpecDomRejecting == Init /\ [][NextDomRejecting]_vars

\* ------------------------------------------------------------------------
\* Properties of the DOM mapper
\* ------------------------------------------------------------------------
\* mapDOM has just returned, and the page is as the scan saw it.
JustScanned == phase = "mapDOM"

\* The elements that carry a data-mcp-id attribute.
Anchored == {n \in Nodes : attr[n] # 0}

\* Element n or one of its ancestors, inside or above the scan root, matches
\* one of the given rules.
InsideZone(n, rules) ==
    \/ \E a \in SelfAndAncestors(n) : page[a].el.zone \in rules
    \/ above \in rules

\* C12: when mapDOM returns N mapped lines (N >= 1, or N = 0 with the
\* '[EMPTY]' sentinel), line i carries anchor i and comes from the element
\* whose attribute is i, the lines are in document order, and exactly N
\* elements carry an anchor attribute, no two the same value.
C12_DenseAnchors ==
    (JustScanned /\ ~ret.raised) =>
        LET N == Len(ret.lines) IN
        /\ \A i \in 1..N : ret.lines[i].k = i /\ attr[ret.lines[i].node] = i
        /\ \A i, j \in 1..N : i < j => ret.lines[i].node < ret.lines[j].node
        /\ Cardinality(Anchored) = N
        /\ \A n, m \in Anchored : n # m => attr[n] # attr[m]

\* A second scan returned two lines around an element it skipped, after an
\* earlier scan had anchored elements.
C12_Witness ==
    /\ JustScanned /\ scans = MaxScans /\ earlier # {}
    /\ Len(ret.lines) >= 2
    /\ \E n \in Nodes : InDoc(page, n) /\ attr[n] = 0
                        /\ ret.lines[1].node < n /\ n < ret.lines[2].node

\* C13: at any time, an element that an earlier scan anchored and the latest
\* scan did not carries neither a data-mcp-id attribute nor the debug
\* outline.
C13_NoStaleMarks ==
    \A n \in earlier \ latest : attr[n] = 0 /\ ~outline[n]

\* A second scan, run with debug on, left out an element the first one had
\* anchored, and anchored another one.
C13_Witness ==
    /\ JustScanned /\ scans = MaxScans
    /\ earlier \ latest # {}
    /\ \E n \in latest : outline[n]

\* C14: no line of mapDOM's output comes from an element that matches a
\* forbidden-zone rule or has an ancestor, inside or above the scan root,
\* that matches one, whatever its text; such an element gets no anchor.
C14_ForbiddenZones ==
    JustScanned =>
        \A n \in Nodes :
            InsideZone(n, FORBIDDEN_ZONES) =>
                /\ attr[n] = 0
                /\ \A i \in 1..Len(ret.lines) : ret.lines[i].node # n

\* A scan mapped an element and left out a visible one with enough text
\* whose parent matches a rule.
C14_Witness ==
    /\ JustScanned /\ ret.lines # <<>>
    /\ \E n \in Nodes :
        /\ InDoc(page, n) /\ page[n].el.visible
        /\ Parent(n) # 0 /\ page[n].el.zone = "none"
        /\ page[Parent(n)].el.zone \in FORBIDDEN_ZONES
        /\ Length(TextOf(page[n].el)) >= MIN_TEXT_LENGTH
        /\ attr[n] = 0

\* C15: when the selector engine rejects one rule of the forbidden-zone
\* list, the scan does not fail because of it and the elements inside zones
\* matched by the rules the engine accepts are still left out.
C15_InvalidRuleOnly ==
    (JustScanned /\ unsupported # {} /\ ~ret.raised) =>
        \A n \in Nodes :
            InsideZone(n, FORBIDDEN_ZONES \ unsupported) =>
                /\ attr[n] = 0
                /\ \A i \in 1..Len(ret.lines) : ret.lines[i].node # n

\* C16: every text mapDOM and extractByIds emit has at most
\* MAX_TEXT_LENGTH + 1 characters: a text longer than MAX_TEXT_LENGTH
\* (measured with the link destination or the button label in it) is its
\* first MAX_TEXT_LENGTH characters and the ellipsis, a shorter one is
\* emitted as it is.
Emitted(text, full) ==
    /\ Length(text) <= MAX_TEXT_LENGTH + 1
    /\ IF full.n > MAX_TEXT_LENGTH
       THEN text = [of |-> full.of, n |-> MAX_TEXT_LENGTH, cut |-> TRUE]
       ELSE text = full

C16_TextLength ==
    /\ JustScanned =>
        \A i \in 1..Len(ret.lines) :
            /\ ret.lines[i].full = TextOf(page[ret.lines[i].node].el)
            /\ Emitted(ret.lines[i].text, ret.lines[i].full)
    /\ phase = "extractByIds" =>
        \A id \in DOMAIN extracted.result :
            LET n == querySelector(page, attr, id, 1) IN
            IF n = 0
            THEN Length(extracted.result[id].text) = 0
            ELSE Emitted(extracted.result[id].text,
                         Str("textContent", TextContentFrom(page, n, n)))

\* A scan emitted a text of exactly MAX_TEXT_LENGTH characters unchanged and
\* cut a link whose text and destination together are longer.
C16_Witness ==
    /\ JustScanned
    /\ \E i \in 1..Len(ret.lines) :
        ret.lines[i].text = Str("text", MAX_TEXT_LENGTH)
    /\ \E i \in 1..Len(ret.lines) :
        /\ ret.lines[i].text.cut /\ ret.lines[i].text.of = "text -> href"
        /\ page[ret.lines[i].node].el.text < MAX_TEXT_LENGTH

\* The elements a scan of the present page maps.
Qualifying ==
    {n \in Nodes :
        /\ InDoc(page, n) /\ page[n].el.visible
        /\ ~InsideZone(n, FORBIDDEN_ZONES)
        /\ Length(TextOf(page[n].el)) >= MIN_TEXT_LENGTH}

\* C17: mapDOM always returns, one of three kinds told apart by their head:
\* '[ERROR] ' exactly when the scan raised an exception; '[EMPTY]' with no
\* mapped line exactly when it raised none and no element qualified;
\* otherwise N >= 1 lines, each `[k] <TAG>` of an element that qualified.
C17_ThreeOutcomes ==
    JustScanned =>
        /\ ret.head \in {"[ERROR] ", "[EMPTY]", ""}
        /\ (ret.head = "[ERROR] ") <=> ret.raised
        /\ (ret.head = "[EMPTY]") <=> (~ret.raised /\ Qualifying = {})
        /\ ret.head # "" => ret.lines = <<>>
        /\ ret.head = "" =>
            /\ Len(ret.lines) >= 1
            /\ \A i \in 1..Len(ret.lines) :
                /\ ret.lines[i].k = i
                /\ ret.lines[i].tag = page[ret.lines[i].node].el.tag

\* A scan raised an exception after it had anchored an element, and
\* returned the error.
C17_Witness ==
    /\ JustScanned /\ ret.head = "[ERROR] "
    /\ Anchored # {} /\ Qualifying # {}

\* C18: extractByIds always returns, with an entry for every requested id:
\* NOT_FOUND with empty text for an id no element of the document carries,
\* the element's tag and text otherwise, whatever the other ids are.
C18_ExtractTotal ==
    phase = "extractByIds" =>
        /\ DOMAIN extracted.result = {extracted.ids[k] : k \in 1..Len(extracted.ids)}
        /\ \A id \in DOMAIN extracted.result :
            LET carriers == {n \in Nodes : InDoc(page, n) /\ attr[n] = id} IN
            IF carriers = {}
            THEN extracted.result[id] = NOT_FOUND
            ELSE \E n \in carriers : extracted.result[id] = Entry(page, n)

\* A request whose second id no element carries got the entries of the
\* ids before and after it.
C18_Witness ==
    /\ phase = "extractByIds" /\ Len(extracted.ids) > 2
    /\ extracted.result[extracted.ids[1]].tag # "NOT_FOUND"
    /\ extracted.result[extracted.ids[2]] = NOT_FOUND
    /\ extracted.result[extracted.ids[3]].tag # "NOT_FOUND"

\* The element document.querySelector finds for anchor k now (0: none).
Resolved_node(k) == querySelector(page, attr, k, 1)

\* The element the latest scan numbered k, if it is still in the document.
LatestScanNode(k) ==
    IF k <= Len(issued) /\ issued[k] # 0 /\ InDoc(page, issued[k])
    THEN issued[k]
    ELSE 0

\* C25 as stated: after a second mapDOM call, extractByIds returns for
\* anchor k the element the second scan numbered k, and NOT_FOUND exactly
\* when the second scan issued fewer than k anchors; it changes no anchor.
C25_LatestScanOnly ==
    (phase = "extractByIds" /\ scans = 2) =>
        \A k \in DOMAIN extracted.result :
            IF k <= Len(issued)
            THEN /\ issued[k] # 0
                 /\ Resolved_node(k) = issued[k]
                 /\ extracted.result[k] = Entry(page, issued[k])
            ELSE extracted.result[k] = NOT_FOUND

\* C25, amended: after a second mapDOM call, extractByIds returns for anchor
\* k the element the second scan numbered k when that element is still in
\* the document, and NOT_FOUND otherwise (the second scan issued fewer than
\* k anchors, or the element has left the document since); it never returns
\* the element the first scan numbered k unless the second scan gave k to
\* the same element; and it changes no anchor.
C25_LatestScanOnly_amended ==
    /\ [](( phase = "extractByIds" /\ scans = 2) =>
            \A k \in DOMAIN extracted.result :
                /\ Resolved_node(k) = LatestScanNode(k)
                /\ extracted.result[k] =
                     (IF LatestScanNode(k) = 0 THEN NOT_FOUND
                      ELSE Entry(page, LatestScanNode(k)))
                /\ (k <= Len(previous) /\ previous[k] # 0
                        /\ Resolved_node(k) = previous[k])
                   => (k <= Len(issued) /\ issued[k] = previous[k]))
    /\ [][phase' = "extractByIds" =>
            /\ attr' = attr
            /\ outline' = outline
            /\ _mappedElements' = _mappedElements]_vars

\* After two scans that gave anchor 1 to different elements and issued one
\* anchor the second time, anchors 1 and 2 were extracted: 1 is the element
\* of the second scan, 2 is not found.
C25_Witness ==
    /\ phase = "extractByIds" /\ scans = 2
    /\ Len(previous) >= 2 /\ Len(issued) = 1
    /\ previous[1] # 0 /\ issued[1] # 0 /\ previous[1] # issued[1]
    /\ InDoc(page, previous[1])
    /\ {1, 2} \subseteq DOMAIN extracted.result
    /\ extracted.result[1] = Entry(page, issued[1])
    /\ extracted.result[2] = NOT_FOUND

\* C28: after every mapDOM call, whatever it returned, the elements that
\* carry a data-mcp-id attribute are exactly those of _mappedElements, and
\* no element anchored by an earlier scan that raised still carries one
\* unless the latest scan anchored it again.
C28_TrackedEqualsAnchored ==
    JustScanned =>
        /\ Anchored = _mappedElements
        /\ \A n \in leftBehind \ latest : attr[n] = 0 /\ n \notin _mappedElements

\* A scan that raised after anchoring elements was followed by a scan that
\* returned lines and did not anchor one of those elements again.
C28_Witness ==
    /\ JustScanned /\ scans = 2 /\ ~ret.raised /\ ret.lines # <<>>
    /\ leftBehind \ latest # {}

\* ========================================================================
\* Response normalisation: the step from `parsed` to the returned record
\* ========================================================================
allButNorm == <<geminiVars, uiVars, domVars, keyVars, storeVars>>

\* The error leaves the try block through the catch block.
Thrown(o, out) ==
    IF out.kind = "throw"
    THEN [out EXCEPT !.err = CatchBlock(o, out.err).err]
    ELSE out

\* analyzeCandidateProfile, from `parsed` (and pageUrl) to its return or
\* throw.
profileFromParsed(doc, url) ==
    /\ normIn' = [op |-> "analyzeCandidateProfile", doc |-> doc, url |-> url]
    /\ normOut' = Thrown("analyzeCandidateProfile", BuildProfile(doc, url))
    /\ UNCHANGED allButNorm

\* analyzeJobFit, from `parsed` to its return or throw.
fitFromParsed(doc) ==
    /\ normIn' = [op |-> "analyzeJobFit", doc |-> doc, url |-> ""]
    /\ normOut' = Thrown("analyzeJobFit", BuildFit(doc))
    /\ UNCHANGED allButNorm

\* A profile response parsed as an object.
ProfileObject ==
    /\ normIn.op = "none"
    /\ \E str \in StringValues, purl \in {Undefined, StringX}, src \in SourceValues,
          list \in ListValues, exps \in ExperienceValues, edus \in EducationValues,
          url \in Urls :
            profileFromParsed(ProfileDoc("object", str, purl, src, list, exps, edus), url)

\* A profile response parsed as null, a primitive or an array.
ProfileNonObject ==
    /\ normIn.op = "none"
    /\ \E doc \in NonObjects, url \in Urls : profileFromParsed(doc, url)

\* A fit response parsed as an object.
FitObject ==
    /\ normIn.op = "none"
    /\ \E score \in ScoreValues, verdict \in {Undefined, Null, StringX},
          list \in ListValues, gaps \in {NotArr(Undefined), Arr(<<StringX>>)} :
            fitFromParsed(FitDoc("object", score, verdict, list, gaps))

\* A fit response parsed as null, a primitive or an array.
FitNonObject ==
    /\ normIn.op = "none"
    /\ \E doc \in NonObjects : fitFromParsed(doc)

NextNorm ==
    \/ ProfileObject
    \/ ProfileNonObject
    \/ FitObject
    \/ FitNonObject

SpecNorm == Init /\ [][NextNorm]_vars

IsString(v) == v.t = "string"
IsStringArray(v) == v.t = "array" /\ \A i \in DOMAIN v.items : IsString(v.items[i])
IsRecordArray(v) ==
    /\ v.t = "array"
    /\ \A i \in DOMAIN v.items : \A j \in 1..3 : IsString(v.items[i][j])

\* The candidate shape.
IsCandidateProfile(r) ==
    /\ IsString(r.fullName) /\ IsString(r.currentRole) /\ IsString(r.location)
    /\ IsString(r.profileUrl) /\ IsString(r.summary) /\ IsString(r.email)
    /\ IsString(r.phone)
    /\ r.source \in {"linkedin", "indeed", "other"}
    /\ IsStringArray(r.skills) /\ IsStringArray(r.certifications)
    /\ IsRecordArray(r.experience) /\ IsRecordArray(r.education)
    /\ r.status = "new"

\* C19: whenever the response text parses as JSON, analyzeCandidateProfile
\* returns a record of the full candidate shape; it raises no error because
\* a field or a list element is absent, null or of the wrong type.
C19_FullShape ==
    normIn.op = "analyzeCandidateProfile" =>
        /\ normOut.kind = "return"
        /\ IsCandidateProfile(normOut.profile)

\* C20: in a returned record every list field is an array, never undefined,
\* and is the empty array when the field of the parsed response is absent
\* or not an array.
C20_ListDefaults ==
    /\ (normIn.op = "analyzeCandidateProfile" /\ normOut.kind = "return") =>
        /\ normOut.profile.skills.t = "array"
        /\ normOut.profile.experience.t = "array"
        /\ normOut.profile.certifications.t = "array"
        /\ normOut.profile.education.t = "array"
        /\ ~normIn.doc.skills.arr => normOut.profile.skills.items = <<>>
        /\ ~normIn.doc.experience.arr => normOut.profile.experience.items = <<>>
        /\ ~normIn.doc.certifications.arr => normOut.profile.certifications.items = <<>>
        /\ ~normIn.doc.education.arr => normOut.profile.education.items = <<>>
    /\ (normIn.op = "analyzeJobFit" /\ normOut.kind = "return") =>
        /\ normOut.fit.matchingSkills.t = "array"
        /\ normOut.fit.gaps.t = "array"
        /\ normOut.fit.strengths.t = "array"
        /\ ~normIn.doc.matchingSkills.arr => normOut.fit.matchingSkills.items = <<>>
        /\ ~normIn.doc.gaps.arr => normOut.fit.gaps.items = <<>>
        /\ ~normIn.doc.strengths.arr => normOut.fit.strengths.items = <<>>

\* A profile was returned for a response object without skills and with an
\* experience that is an object, next to an education array that was kept.
C20_Witness ==
    /\ normIn.op = "analyzeCandidateProfile" /\ normOut.kind = "return"
    /\ normIn.doc.k = "object"
    /\ normIn.doc.skills = NotArr(Undefined)
    /\ normIn.doc.experience = NotArr(PlainObject)
    /\ normOut.profile.skills.items = <<>>
    /\ normOut.profile.education.items # <<>>

\* C21: for every parsed response object analyzeJobFit returns a score
\* between 0 and 100: 100 for a number above 100, 0 for a negative number,
\* the number itself when it is within the range, and 0 when the score is
\* absent or is not a number.
C21_ScoreClamped ==
    (normIn.op = "analyzeJobFit" /\ normIn.doc.k = "object") =>
        /\ normOut.kind = "return"
        /\ LET v == normIn.doc.score
               s == normOut.fit.score
           IN
           /\ 0 <= s /\ s <= 100
           /\ IF v.t = "number"
              THEN /\ v.n > 100 => s = 100
                   /\ v.n < 0 => s = 0
                   /\ (0 <= v.n /\ v.n <= 100) => s = v.n
              ELSE s = 0

\* C22: the source of a returned profile is one of 'linkedin', 'indeed',
\* 'other'; it is the source of the response when that is one of the three,
\* and otherwise it is inferred from the page address.
C22_SourceValidated ==
    (normIn.op = "analyzeCandidateProfile" /\ normOut.kind = "return") =>
        LET given == normIn.doc.source
            src == normOut.profile.source
        IN
        /\ src \in {"linkedin", "indeed", "other"}
        /\ IF given.t = "string" /\ given.s \in {"linkedin", "indeed", "other"}
           THEN src = given.s
           ELSE src = (IF Includes(normIn.url, "linkedin.com") THEN "linkedin"
                       ELSE IF Includes(normIn.url, "indeed.com") THEN "indeed"
                       ELSE "other")

\* ========================================================================
\* generateOutreachMessage on its own, with response texts that carry white
\* space around them
\* ========================================================================
\* What generateContent settles with: texts whose length is around
\* MIN_OUTREACH_LEN before and after trimming, the empty text, white space
\* only, a transient rate limit and another failure.
OutreachUpstream ==
    {Resolved(MkText("empty", "invalid", {}, 0)),
     Resolved(Padded(MkText("blank", "invalid", {}, 0), 4)),
     Resolved(MkText("short", "invalid", {}, MIN_OUTREACH_LEN - 1)),
     Resolved(MkText("message", "invalid", {}, MIN_OUTREACH_LEN)),
     Resolved(Padded(MkText("short", "invalid", {}, MIN_OUTREACH_LEN - 1), 3)),
     Resolved(Padded(MkText("message", "invalid", {}, MIN_OUTREACH_LEN), 5)),
     Rejected(UpstreamErr({"429"})),
     Rejected(UpstreamErr({}))}

NextOutreach ==
    \/ Tick
    \/ \E p \in Procs : Invoke(p, "generateOutreachMessage")
    \/ \E p \in Procs : NoApiKey(p)
    \/ \E p \in Procs : StartOp(p)
    \/ \E p \in Procs, u \in OutreachUpstream : OnSettled(p, u)
    \/ \E p \in Procs : TimerFires(p)
    \/ \E p \in Procs : Settle(p)

SpecOutreach == Init /\ [][NextOutreach]_vars

\* C23: when a generateContent call of generateOutreachMessage resolves,
\* the operation ends with that attempt: it returns the text without the
\* white space around it when that trimmed text has at least 20 characters,
\* and throws the too-short error when it is empty or shorter; no further
\* call and no sleep follows.
C23_TrimmedMinLength ==
    \A p \in Procs : \A i \in 1..Len(hist[p]) :
        (op[p] = "generateOutreachMessage" /\ hist[p][i].ok) =>
            LET raw == hist[p][i].text
                n == raw.len - raw.pad
            IN
            /\ i = Len(hist[p])
            /\ pc[p] = "done"
            /\ calls[p] = i
            /\ Len(sleeps[p]) = i - 1
            /\ IF n >= 20
               THEN outcome[p] = Returned([raw EXCEPT !.len = n, !.pad = 0])
               ELSE outcome[p] = Threw(TooShortError)

\* The second attempt of generateOutreachMessage resolved with a text that
\* has white space around it, and the trimmed text was returned.
C23_Witness ==
    \E p \in Procs :
        /\ pc[p] = "done" /\ op[p] = "generateOutreachMessage"
        /\ Len(hist[p]) = 2 /\ hist[p][2].ok
        /\ hist[p][2].text.pad > 0
        /\ outcome[p].kind = "return"
        /\ outcome[p].value # hist[p][2].text

\* ========================================================================
\* The API key: setApiKey, getGenAI and the storage requests they await
\* ========================================================================
allButKey == <<geminiVars, uiVars, domVars, normVars, storeVars>>

\* A call that has ended and whose caller has not resumed yet.
KeyPending == {c \in KeyCallers : keyCall[c].pc = "done"}

KeyReturned(client) == [kind |-> "return", err |-> NoError, client |-> client]
KeyThrew(e) == [kind |-> "throw", err |-> e, client |-> NoKey]

\* setApiKey(key) up to `await browser.storage.sync.set`.
setApiKey(c, key) ==
    /\ KeyPending = {}
    /\ keyCall[c].pc = "idle"
    /\ LET trimmed == trim(key)
           call == [NoKeyCall EXCEPT !.fn = "setApiKey", !.arg = key, !.after = lastSet]
       IN
       IF trimmed.len < MIN_KEY_LENGTH
       THEN keyCall' = [keyCall EXCEPT ![c] =
                [call EXCEPT !.pc = "done", !.out = KeyThrew(InvalidKeyError)]]
       ELSE keyCall' = [keyCall EXCEPT ![c] =
                [call EXCEPT !.pc = "storage.set", !.value = trimmed]]
    /\ UNCHANGED <<storedKey, _cachedKey, _genAI, lastSet>>
    /\ UNCHANGED allButKey

\* The storage write of setApiKey settles: the rest of setApiKey, or its
\* rejection.
SetSettles(c, ok) ==
    /\ KeyPending = {}
    /\ keyCall[c].pc = "storage.set"
    /\ IF ok
       THEN LET tail == setApiKey_tail(keyCall[c].value, _genAI) IN
            /\ storedKey' = keyCall[c].value
            /\ _cachedKey' = tail.cachedKey
            /\ _genAI' = tail.genAI
            /\ lastSet' = keyCall[c].value
            /\ keyCall' = [d \in KeyCallers |->
                 IF d = c
                 THEN [keyCall[c] EXCEPT !.pc = "done", !.out = KeyReturned(NoKey)]
                 ELSE IF keyCall[d].pc = "idle" THEN keyCall[d]
                 ELSE [keyCall[d] EXCEPT !.during = TRUE]]
       ELSE /\ keyCall' = [keyCall EXCEPT ![c] =
                 [@ EXCEPT !.pc = "done", !.out = KeyThrew(StorageError), !.failed = TRUE]]
            /\ UNCHANGED <<storedKey, _cachedKey, _genAI, lastSet>>
    /\ UNCHANGED allButKey

\* getGenAI() from one of the three operations, up to the storage read of
\* getApiKey, or to its end when the key is cached.
getGenAI(c) ==
    /\ KeyPending = {}
    /\ keyCall[c].pc = "idle"
    /\ LET call == [NoKeyCall EXCEPT !.fn = "getGenAI", !.after = lastSet] IN
       IF _cachedKey # NoKey
       THEN LET client == getGenAI_tail(_genAI, _cachedKey, _cachedKey) IN
            /\ _genAI' = client
            /\ keyCall' = [keyCall EXCEPT ![c] =
                 [call EXCEPT !.pc = "done", !.out = KeyReturned(client)]]
       ELSE /\ keyCall' = [keyCall EXCEPT ![c] = [call EXCEPT !.pc = "storage.get"]]
            /\ UNCHANGED _genAI
    /\ UNCHANGED <<storedKey, _cachedKey, lastSet>>
    /\ UNCHANGED allButKey

\* The storage read of getApiKey settles: the rest of getApiKey and of
\* getGenAI.
GetSettles(c, ok) ==
    /\ KeyPending = {}
    /\ keyCall[c].pc = "storage.get"
    /\ IF ok /\ storedKey # NoKey /\ trim(storedKey).len >= MIN_KEY_LENGTH
       THEN LET key == trim(storedKey)
                client == getGenAI_tail(_genAI, key, key)
            IN
            /\ _cachedKey' = key
            /\ _genAI' = client
            /\ keyCall' = [keyCall EXCEPT ![c] =
                 [@ EXCEPT !.pc = "done", !.out = KeyReturned(client)]]
       ELSE /\ keyCall' = [keyCall EXCEPT ![c] =
                 [@ EXCEPT !.pc = "done", !.out = KeyThrew(ApiKeyError), !.failed = ~ok]]
            /\ UNCHANGED <<_cachedKey, _genAI>>
    /\ UNCHANGED <<storedKey, lastSet>>
    /\ UNCHANGED allButKey

\* The caller of an ended call resumes.
KeyResume(c) ==
    /\ keyCall[c].pc = "done"
    /\ keyCall' = [keyCall EXCEPT ![c] = NoKeyCall]
    /\ UNCHANGED <<storedKey, _cachedKey, _genAI, lastSet>>
    /\ UNCHANGED allButKey

\* The sidepanel is closed and opened again: gemini.ts is loaded anew.
Reload ==
    /\ \A c \in KeyCallers : keyCall[c].pc = "idle"
    /\ _cachedKey # NoKey
    /\ _cachedKey' = NoKey
    /\ _genAI' = NoKey
    /\ UNCHANGED <<storedKey, keyCall, lastSet>>
    /\ UNCHANGED allButKey

NextKey ==
    \/ \E c \in KeyCallers, key \in KeyInputs : setApiKey(c, key)
    \/ \E c \in KeyCallers, ok \in BOOLEAN : SetSettles(c, ok)
    \/ \E c \in KeyCallers : getGenAI(c)
    \/ \E c \in KeyCallers, ok \in BOOLEAN : GetSettles(c, ok)
    \/ \E c \in KeyCallers : KeyResume(c)
    \/ Reload

SpecKey == Init /\ [][NextKey]_vars

\* The key without the white space around it.
Trimmed(key) == Key(key.of, key.len - key.pad, 0)

\* C24: a setApiKey call whose key has a trimmed length below 10 throws at
\* once and leaves the stored key, the cached key and the client as they
\* were; one whose trimmed length is at least 10 goes on to the storage
\* write, and when it has resolved the stored key and the cached key are
\* the trimmed key; a getGenAI call that begins after it has resolved (no
\* other setApiKey resolving meanwhile, storage answering) returns a client
\* built with that trimmed key.
C24_SetApiKey ==
    /\ [][\A c \in KeyCallers :
            (keyCall[c].pc = "idle" /\ keyCall'[c].fn = "setApiKey")
            => IF keyCall'[c].arg.len - keyCall'[c].arg.pad < 10
               THEN /\ keyCall'[c].pc = "done"
                    /\ keyCall'[c].out = KeyThrew(InvalidKeyError)
                    /\ storedKey' = storedKey
                    /\ _cachedKey' = _cachedKey
                    /\ _genAI' = _genAI
               ELSE keyCall'[c].pc = "storage.set"]_vars
    /\ [](\A c \in KeyCallers :
            (keyCall[c].pc = "done" /\ keyCall[c].fn = "setApiKey"
                /\ keyCall[c].out.kind = "return")
            => /\ storedKey = Trimmed(keyCall[c].arg)
               /\ _cachedKey = Trimmed(keyCall[c].arg)
               /\ lastSet = Trimmed(keyCall[c].arg))
    /\ [](\A c \in KeyCallers :
            (keyCall[c].pc = "done" /\ keyCall[c].fn = "getGenAI"
                /\ keyCall[c].after # NoKey /\ ~keyCall[c].during /\ ~keyCall[c].failed)
            => keyCall[c].out = KeyReturned(keyCall[c].after))

\* After two keys were set, the second with white space around it, and the
\* module was loaded anew, getGenAI returned a client built with the trimmed
\* second key.
C24_Witness ==
    \E c \in KeyCallers :
        /\ keyCall[c].pc = "done" /\ keyCall[c].fn = "getGenAI"
        /\ ~keyCall[c].during
        /\ keyCall[c].after = Key("B", MIN_KEY_LENGTH, 0)
        /\ keyCall[c].out = KeyReturned(keyCall[c].after)

\* ========================================================================
\* Frame and termination of the throttled operations
\* ========================================================================
\* C26: a throttleGuard() call that rejects leaves _lastCallTime and
\* _callInFlight as they were, and so does everything else a rejected
\* invocation does; the flag is cleared only by the step that ends an
\* admitted invocation, and the timestamp changes only in the step that
\* admits one, to the time of that step, so rejected attempts do not move
\* the time from which the next call is admitted.
C26_RejectionChangesNothing ==
    /\ [][\A p \in Procs :
            (GuardStep(p) /\ ~admitted'[p])
            => /\ outcome'[p].kind = "throw"
               /\ _lastCallTime' = _lastCallTime
               /\ _callInFlight' = _callInFlight]_vars
    /\ [][\A p \in Procs :
            (~admitted[p] /\ ~admitted'[p] /\ pc'[p] # pc[p])
            => /\ _lastCallTime' = _lastCallTime
               /\ _callInFlight' = _callInFlight]_vars
    /\ [][(_callInFlight /\ ~_callInFlight')
            => \E p \in Procs : InFlight(p) /\ pc'[p] = "done"]_vars
    /\ [][_lastCallTime' # _lastCallTime
            => /\ _lastCallTime' = now
               /\ \E p \in Procs : ~admitted[p] /\ admitted'[p]]_vars

\* While one invocation is in flight, admitted at an earlier clock reading,
\* another has been rejected as 'already in progress' and the flag is still
\* set.
C26_Witness ==
    \E p, q \in Procs :
        /\ InFlight(q)
        /\ pc[p] = "done" /\ outcome[p] = Threw(BusyError)
        /\ _callInFlight
        /\ _lastCallTime < now

\* What generateContent settles with in the termination check.
LiveUpstream ==
    {Resolved(MkText("profileA", "object", {}, 40)),
     Resolved(MkText("prose", "invalid", {}, 30)),
     Rejected(UpstreamErr({"429"})),
     Rejected(UpstreamErr({"429", "limit: 0", "PerDay"})),
     Rejected(UpstreamErr({}))}

NextLive ==
    \/ Tick
    \/ \E p \in Procs, o \in Ops : Invoke(p, o)
    \/ \E p \in Procs : NoApiKey(p)
    \/ \E p \in Procs : StartOp(p)
    \/ \E p \in Procs, u \in LiveUpstream : OnSettled(p, u)
    \/ \E p \in Procs : TimerFires(p)
    \/ \E p \in Procs : Settle(p)

\* Every generateContent call settles and every backoff timer fires (these
\* steps wait only for the continuation of an ended invocation, which runs
\* without waiting for anything).
Fairness ==
    \A p \in Procs :
        /\ SF_vars(\E u \in LiveUpstream : OnSettled(p, u))
        /\ SF_vars(TimerFires(p))
        /\ WF_vars(Settle(p))

SpecLive == Init /\ [][NextLive]_vars /\ Fairness

\* C27: an admitted invocation makes at most 3 generateContent calls and
\* sleeps at most twice, and it ends: from every state in which it is in
\* flight a state follows in which it has ended and the in-flight flag it
\* set is clear.
C27_AdmittedTerminates ==
    /\ [](\A p \in Procs : calls[p] <= 3 /\ Len(sleeps[p]) <= 2)
    /\ \A p \in Procs :
            InFlight(p) ~> (pc[p] = "done" /\ admitted[p] /\ ~_callInFlight)

\* An admitted invocation has ended after three calls and two sleeps, and
\* the flag is clear.
C27_Witness ==
    \E p \in Procs :
        /\ pc[p] = "done" /\ admitted[p]
        /\ calls[p] = 3 /\ Len(sleeps[p]) = 2
        /\ ~_callInFlight

\* ========================================================================
\* handleAnalyze: the automatic fit scoring right after the profile call
\* ========================================================================
\* Slot p runs the analyzeJobFit call that handleAnalyze makes after
\* analyzeCandidateProfile returned.
AutoFit(p) == caller[p] = "handleAnalyze.autoFit"

\* The automatic analyzeJobFit reaches throttleGuard() less than the minimum
\* interval after the profile call was admitted.
TooSoon == now - _lastCallTime < MIN_CALL_GAP_MS

\* The automatic analyzeJobFit ended with the wait-time error.
AutoFitRejected(p) ==
    /\ AutoFit(p) /\ pc[p] = "done"
    /\ outcome[p] = Threw(WaitError(CeilDiv(MIN_CALL_GAP_MS - (now - _lastCallTime), 1000)))

\* Up to the rejection: _lastCallTime is the time at which the profile call
\* was admitted until the automatic analyzeJobFit has run throttleGuard(),
\* which it does at the clock reading at which the profile call returned; if
\* that is less than 2000 ms after the admission, the fit call ends there
\* with the wait-time error and zero generateContent calls.
RejectedAtOnce ==
    /\ [][\A p \in Procs :
            (caller[p] = "handleAnalyze" /\ GuardStep(p) /\ admitted'[p])
            => _lastCallTime' = now]_vars
    /\ [][\A p \in Procs :
            (caller[p] = "handleAnalyze" /\ (InFlight(p) \/ pc[p] = "done"))
            => _lastCallTime' = _lastCallTime]_vars
    /\ [][\A p \in Procs :
            (caller[p] = "handleAnalyze" /\ pc[p] = "done" /\ outcome[p].kind = "return"
                /\ activeJob[p])
            => /\ AutoFit(p)' /\ pc'[p] = "getGenAI"
               /\ now' = now /\ _callInFlight' = _callInFlight]_vars
    /\ [][\A p \in Procs :
            (AutoFit(p) /\ pc[p] = "getGenAI")
            => /\ now' = now
               /\ GuardStep(p) \/ (pc'[p] = pc[p] /\ _lastCallTime' = _lastCallTime
                                      /\ _callInFlight' = _callInFlight)]_vars
    /\ [][\A p \in Procs :
            (AutoFit(p) /\ GuardStep(p) /\ TooSoon)
            => /\ AutoFitRejected(p)'
               /\ calls'[p] = 0 /\ ~admitted'[p]]_vars

\* C29: in handleAnalyze with a job selected, if analyzeCandidateProfile
\* returns less than 2000 ms after it was admitted, the analyzeJobFit call
\* that follows is rejected with the wait-time error without calling
\* generateContent, and handleAnalyze goes on to status 'done' with no fit
\* result and no error shown.
C29_AutoFitRejected ==
    /\ RejectedAtOnce
    /\ [][\A p \in Procs :
            (AutoFitRejected(p) /\ pc'[p] # "done")
            => /\ status' = "done"
               /\ ~fitResult'
               /\ error' = NoError
               /\ caller'[p] = "none" /\ pc'[p] = "idle"]_vars

\* C29 as amended: ... and handleAnalyze goes on to status 'done' without
\* setting a fit result or an error: both are left as they were when the
\* fit call was rejected.
C29_AutoFitRejected_amended ==
    /\ RejectedAtOnce
    /\ [][\A p \in Procs :
            (AutoFitRejected(p) /\ pc'[p] # "done")
            => /\ status' = "done"
               /\ fitResult' = fitResult
               /\ error' = error
               /\ ~fitLoading'
               /\ caller'[p] = "none" /\ pc'[p] = "idle"]_vars

\* The profile call was admitted and returned 500 ms later, and the fit call
\* that followed has been rejected with 'wait 2 s' without calling
\* generateContent.
C29_Witness ==
    \E p \in Procs :
        /\ AutoFitRejected(p)
        /\ activeJob[p]
        /\ now - _lastCallTime = TickMs
        /\ calls[p] = 0
        /\ candidate /\ ~fitResult /\ error = NoError
        /\ status = "analyzing"


\* ========================================================================
\* The candidate store: overlapping saveCandidate calls
\* ========================================================================
allButStore == <<geminiVars, uiVars, domVars, normVars, keyVars>>

\* The calls that have started and whose result, if any, the store has not
\* rendered yet.
Unrendered == {c \in Savers : saveCall[c].pc \in {"writing", "written"} /\ ~saveCall[c].shown}

\* saveCandidate(candidate, jobId) by caller s, up to
\* `await browser.storage.local.set(...)` in persistCandidates.
saveCandidate(s, url, job) ==
    /\ saves < MaxSaves
    /\ saveCall[s].pc # "writing"
    /\ LET enriched == Candidate(url, job, saves + 1)
           current == ReadCurrent(candidatesRef, candidates)
           others == Unrendered \ {s}
       IN
       /\ saveCall' =
            [c \in Savers |->
                IF c = s
                THEN [pc |-> "writing",
                      arg |-> enriched,
                      isNew |-> findIndex(current, enriched) = 0,
                      read |-> current,
                      updated |-> Updated(current, enriched),
                      shown |-> FALSE,
                      fresh |-> TRUE,
                      raced |-> others,
                      sameRead |-> {c2 \in others : saveCall[c2].fresh}]
                ELSE [saveCall[c] EXCEPT !.raced = @ \ {s}, !.sameRead = @ \ {s}]]
       /\ toast' = SaveToast(current, enriched)
    /\ saves' = saves + 1
    /\ UNCHANGED <<persisted, candidates, candidatesRef, storageUsage, usageChecks,
                   lastWrite>>
    /\ UNCHANGED allButStore

\* The storage write of caller s settles: setCandidates(updated) and an
\* un-awaited checkStorageUsage(), or the catch block's toast and rethrow.
WriteSettles(s, how) ==
    /\ saveCall[s].pc = "writing"
    /\ IF how = "ok"
       THEN /\ persisted' = saveCall[s].updated
            /\ candidates' = saveCall[s].updated
            /\ lastWrite' = s
            /\ usageChecks' = usageChecks + 1
            /\ saveCall' = [saveCall EXCEPT ![s].pc = "written"]
            /\ UNCHANGED toast
       ELSE /\ toast' = WriteErrorToast(how = "QUOTA_BYTES")
            /\ saveCall' = [saveCall EXCEPT ![s].pc = "failed"]
            /\ UNCHANGED <<persisted, candidates, lastWrite, usageChecks>>
    /\ UNCHANGED <<candidatesRef, storageUsage, saves>>
    /\ UNCHANGED allButStore

\* React renders the hook again after setCandidates:
\* `candidatesRef.current = candidates`.
Render ==
    /\ candidatesRef # candidates
    /\ candidatesRef' = candidates
    /\ saveCall' = [c \in Savers |->
                      [saveCall[c] EXCEPT !.fresh = FALSE,
                                          !.shown = (@ \/ saveCall[c].pc = "written")]]
    /\ UNCHANGED <<persisted, candidates, toast, storageUsage, usageChecks, lastWrite,
                   saves>>
    /\ UNCHANGED allButStore

\* getBytesInUse settles in checkStorageUsage().
UsageSettles(ok, pct) ==
    /\ usageChecks > 0
    /\ usageChecks' = usageChecks - 1
    /\ IF ok
       THEN /\ storageUsage' = pct
            /\ toast' = IF pct >= USAGE_WARN_PCT THEN UsageToast ELSE toast
       ELSE UNCHANGED <<storageUsage, toast>>
    /\ UNCHANGED <<persisted, candidates, candidatesRef, saveCall, lastWrite, saves>>
    /\ UNCHANGED allButStore

\* The toast is dismissed after its 3000 ms.
ToastTimeout ==
    /\ toast # NoToast
    /\ toast' = NoToast
    /\ UNCHANGED <<persisted, candidates, candidatesRef, storageUsage, usageChecks,
                   saveCall, lastWrite, saves>>
    /\ UNCHANGED allButStore

NextStore ==
    \/ \E s \in Savers, url \in ProfileUrls, job \in JobIds : saveCandidate(s, url, job)
    \/ \E s \in Savers, how \in {"ok", "QUOTA_BYTES", "error"} : WriteSettles(s, how)
    \/ Render
    \/ \E ok \in BOOLEAN, pct \in UsagePcts : UsageSettles(ok, pct)
    \/ ToastTimeout

SpecStore == Init /\ [][NextStore]_vars

\* The list holds an entry for the candidate of e (same profile, same job).
Holds(list, e) == findIndex(list, e) > 0

\* Two calls for different candidates.
Different(s, t) ==
    \/ saveCall[s].arg.profileUrl # saveCall[t].arg.profileUrl
    \/ saveCall[s].arg.jobId # saveCall[t].arg.jobId

\* The step in which caller s starts a call / in which its write succeeds.
Starts(s) == saveCall[s].pc # "writing" /\ saveCall'[s].pc = "writing"
Written(s) == saveCall[s].pc = "writing" /\ saveCall'[s].pc = "written"

====
